---- MODULE Spec2Model ----
(***************************************************************************)
(* Model of the table-page recognition pipeline: the semantic dictionary,  *)
(* the intelligence engine, the layout protocol and the structural         *)
(* extractor (EnhancedTableProcessor.processTablePage).                    *)
(*                                                                         *)
(* A JavaScript string is a sequence of characters; a character is a       *)
(* one-letter TLA+ string, and a CJK character is the token "uXXXX" of its *)
(* code point, so that length, containment and case are computed as the   *)
(* code computes them.                                                     *)
(***************************************************************************)
EXTENDS Integers, Sequences, FiniteSets, TLC

VARIABLES
    input,      \* the arguments of the call (a function's inputs, or the node tree)
    output      \* what the call returned or threw, NoResult before it ends

vars == <<input, output>>

-----------------------------------------------------------------------------
(* Strings *)

UpperCase == <<"A","B","C","D","E","F","G","H","I","J","K","L","M",
               "N","O","P","Q","R","S","T","U","V","W","X","Y","Z">>
LowerCase == <<"a","b","c","d","e","f","g","h","i","j","k","l","m",
               "n","o","p","q","r","s","t","u","v","w","x","y","z">>
Digits == {"0","1","2","3","4","5","6","7","8","9"}
WhiteSpace == {" "}

\* The CJK characters (U+4E00..U+9FA5) that occur in the dictionaries and inputs.
CJK == 
    {"u4e0b", "u4e2d", "u4e3a", "u4e3b", "u4e49", "u4ef6", "u4efd", "u4f53", "u4f5c", "u4f7f",
    "u4fe1", "u4fee", "u5143", "u5165", "u5168", "u5171", "u5173", "u5177", "u5185", "u51c6",
    "u51fa", "u5206", "u5207", "u5217", "u521b", "u5220", "u522b", "u5237", "u52a0", "u5305",
    "u533a", "u5355", "u53ef", "u5408", "u540d", "u5417", "u542b", "u5668", "u56de", "u56fe",
    "u5728", "u578b", "u57df", "u589e", "u590d", "u591a", "u5927", "u5934", "u5982", "u5b57",
    "u5b9a", "u5ba1", "u5bb9", "u5bfc", "u5c0f", "u5c55", "u5de5", "u5df2", "u5e74", "u5e9f",
    "u5efa", "u5f00", "u5f55", "u5f85", "u6001", "u6027", "u606f", "u60c5", "u6237", "u6279",
    "u62c9", "u62d2", "u62e9", "u6309", "u6362", "u636e", "u63cf", "u63d0", "u641c", "u64cd",
    "u6536", "u6539", "u6570", "u6587", "u65b0", "u65e5", "u65f6", "u663e", "u66f4", "u6708",
    "u671f", "u672a", "u6761", "u67e5", "u6807", "u680f", "u6838", "u683c", "u6846", "u6b21",
    "u6dfb", "u6ee4", "u72b6", "u7406", "u7528", "u7684", "u770b", "u7801", "u786e", "u793a",
    "u7981", "u79f0", "u79fb", "u7a7a", "u7b2c", "u7b5b", "u7b7e", "u7ba1", "u7c7b", "u7d22",
    "u7ea7", "u7ec4", "u7edd", "u7f16", "u7f51", "u7f6e", "u7ffb", "u8003", "u8651", "u884c",
    "u8868", "u8981", "u8ba4", "u8bb0", "u8bc6", "u8be2", "u8be6", "u8bf7", "u8bfb", "u8d77",
    "u8f7d", "u8f91", "u8f93", "u8fc7", "u8fd9", "u8ff0", "u9009", "u901a", "u90e8", "u91cd",
    "u94ae", "u952e", "u95f4", "u9664", "u9762", "u9875", "u9898", "u9a73", "u9ad8", "u9ed8"}

SeqMin(S) == CHOOSE m \in S : \A n \in S : m <= n
SeqMax(S) == CHOOSE m \in S : \A n \in S : m >= n

\* String.prototype.toLowerCase, one character
LowerCaseOf ==
    [c \in {UpperCase[i] : i \in 1..26} |-> LowerCase[CHOOSE i \in 1..26 : UpperCase[i] = c]]
LowerOf(c) == IF c \in DOMAIN LowerCaseOf THEN LowerCaseOf[c] ELSE c

toLowerCase(s) == [i \in 1..Len(s) |-> LowerOf(s[i])]

\* String.prototype.trim
trim(s) ==
    LET idx == {i \in 1..Len(s) : s[i] \notin WhiteSpace}
    IN  IF idx = {} THEN <<>> ELSE SubSeq(s, SeqMin(idx), SeqMax(idx))

startsAt(s, k, i) ==
    /\ i + Len(k) - 1 <= Len(s)
    /\ \A j \in 1..Len(k) : s[i + j - 1] = k[j]

\* String.prototype.includes
includes(s, k) == \E i \in 1..(Len(s) - Len(k) + 1) : startsAt(s, k, i)

startsWith(s, k) == startsAt(s, k, 1)
endsWith(s, k) == Len(k) <= Len(s) /\ startsAt(s, k, Len(s) - Len(k) + 1)

\* Array.prototype.some over a list of keywords
someIncluded(s, keywords) == \E i \in 1..Len(keywords) : includes(s, keywords[i])

\* /k1|k2|.../i tested on s
testAnyIgnoreCase(s, keywords) ==
    \E i \in 1..Len(keywords) : includes(toLowerCase(s), toLowerCase(keywords[i]))

-----------------------------------------------------------------------------
(* The semantic dictionary, in registration (Object.entries) order *)

SearchMatchers == <<<<"s","e","a","r","c","h">>, <<"f","i","l","t","e","r">>, <<"q","u","e","r","y">>, <<"f","i","n","d">>, <<"u641c","u7d22">>, <<"u67e5","u8be2">>, <<"u7b5b","u9009">>, <<"u8fc7","u6ee4">>>>
GridMatchers == <<<<"t","a","b","l","e">>, <<"g","r","i","d">>, <<"l","i","s","t">>, <<"d","a","t","a">>, <<"c","o","l","u","m","n","s">>, <<"r","o","w","s">>,
                  <<"u6570","u636e","u8868">>, <<"u5217","u8868">>, <<"u7f51","u683c">>, <<"u5217">>>>
GridExcludes == <<<<"c","o","n","t","a","i","n","e","r">>, <<"w","r","a","p","p","e","r">>>>
ToolbarMatchers == <<<<"t","o","o","l","b","a","r">>, <<"t","o","o","l","s">>, <<"b","u","t","t","o","n","G","r","o","u","p">>, <<"b","u","t","t","o","n","s">>, <<"u5de5","u5177","u680f">>, <<"u6309","u94ae","u7ec4">>, <<"u64cd","u4f5c","u680f">>>>
OperationsMatchers == <<<<"u64cd","u4f5c">>, <<"a","c","t","i","o","n">>, <<"o","p","e","r","a","t","i","o","n">>, <<"o","p","t">>, <<"m","a","n","a","g","e">>, <<"u7ba1","u7406">>>>
PaginationMatchers == <<<<"p","a","g","i","n","a","t","i","o","n">>, <<"p","a","g","e","r">>, <<"f","o","o","t","e","r">>, <<"p","a","g","e","-","c","o","n","t","r","o","l">>, <<"u5206","u9875">>, <<"u7ffb","u9875">>, <<"u9875","u7801">>>>
HeaderMatchers == <<<<"h","e","a","d","e","r">>, <<"t","i","t","l","e">>, <<"c","a","p","t","i","o","n">>, <<"t","o","p","-","b","a","r">>, <<"h","e","a","d","i","n","g">>, <<"u6807","u9898","u680f">>, <<"u6807","u9898">>>>
BodyMatchers == <<<<"b","o","d","y">>, <<"c","o","n","t","e","n","t">>, <<"m","a","i","n">>, <<"w","r","a","p","p","e","r">>, <<"c","o","n","t","a","i","n","e","r">>, <<"u4e3b","u4f53">>, <<"u5185","u5bb9","u533a">>>>

SemanticDictionary == <<
    [key |-> "search",     matchers |-> SearchMatchers,     excludes |-> <<>>,         role |-> "SearchArea"],
    [key |-> "grid",       matchers |-> GridMatchers,       excludes |-> GridExcludes, role |-> "DataGrid"],
    [key |-> "toolbar",    matchers |-> ToolbarMatchers,    excludes |-> <<>>,         role |-> "ActionGroup"],
    [key |-> "operations", matchers |-> OperationsMatchers, excludes |-> <<>>,         role |-> "OperationGroup"],
    [key |-> "pagination", matchers |-> PaginationMatchers, excludes |-> <<>>,         role |-> "PaginationBar"],
    [key |-> "header",     matchers |-> HeaderMatchers,     excludes |-> <<>>,         role |-> "HeaderArea"],
    [key |-> "body",       matchers |-> BodyMatchers,       excludes |-> <<>>,         role |-> "BodyArea"] >>

\* toolbar.intent
ToolbarPrimary == <<<<"a","d","d">>, <<"c","r","e","a","t","e">>, <<"n","e","w">>, <<"i","n","s","e","r","t">>, <<"u65b0","u589e">>, <<"u6dfb","u52a0">>, <<"u521b","u5efa">>>>
ToolbarBatch == <<<<"e","x","p","o","r","t">>, <<"i","m","p","o","r","t">>, <<"d","o","w","n","l","o","a","d">>, <<"u5bfc","u51fa">>, <<"u5bfc","u5165">>, <<"u4e0b","u8f7d">>>>
ToolbarSystem == <<<<"r","e","f","r","e","s","h">>, <<"r","e","l","o","a","d">>, <<"r","e","s","e","t">>, <<"u5237","u65b0">>, <<"u91cd","u7f6e">>>>

\* operations.intent
OperationsEdit == <<<<"e","d","i","t">>, <<"m","o","d","i","f","y">>, <<"u","p","d","a","t","e">>, <<"u5ba1","u6838">>, <<"u901a","u8fc7">>, <<"u6279","u51c6">>, <<"a","p","p","r","o","v","e">>, <<"p","a","s","s">>,
                    <<"u7f16","u8f91">>, <<"u4fee","u6539">>, <<"u66f4","u65b0">>>>
OperationsDanger == <<<<"d","e","l","e","t","e">>, <<"r","e","m","o","v","e">>, <<"d","e","s","t","r","o","y">>, <<"c","a","n","c","e","l">>, <<"r","e","j","e","c","t">>, <<"v","o","i","d">>,
                      <<"u5220","u9664">>, <<"u79fb","u9664">>, <<"u4f5c","u5e9f">>, <<"u9a73","u56de">>, <<"u62d2","u7edd">>, <<"u7981","u7528">>, <<"d","i","s","a","b","l","e">>>>
OperationsView == <<<<"v","i","e","w">>, <<"d","e","t","a","i","l">>, <<"s","h","o","w">>, <<"i","n","f","o">>, <<"u67e5","u770b">>, <<"u8be6","u60c5">>, <<"u663e","u793a">>>>

\* RecognitionConfig.minConfidence and the keyword score of resolveNodeRole, in tenths
minConfidence == 6
KeywordConfidence == 8

NoRole == [role |-> "null", confidence |-> 0]

-----------------------------------------------------------------------------
(* Intelligence engine *)

\* resolveStep with the exclude keywords ignored
resolveStepNoExcludes(name, semantic, bestMatch) ==
    IF /\ \E i \in 1..Len(semantic.matchers) : includes(name, toLowerCase(semantic.matchers[i]))
       /\ KeywordConfidence > bestMatch.confidence
    THEN [role |-> semantic.role, confidence |-> KeywordConfidence]
    ELSE bestMatch

\* One iteration of the forEach in resolveNodeRole: the entry's effect on bestMatch.
resolveStep(name, semantic, bestMatch) ==
    IF \E i \in 1..Len(semantic.excludes) : includes(name, toLowerCase(semantic.excludes[i]))
    THEN bestMatch
    ELSE IF /\ \E i \in 1..Len(semantic.matchers) : includes(name, toLowerCase(semantic.matchers[i]))
            /\ KeywordConfidence > bestMatch.confidence
         THEN [role |-> semantic.role, confidence |-> KeywordConfidence]
         ELSE bestMatch

RECURSIVE resolveFrom(_, _, _)
resolveFrom(name, i, bestMatch) ==
    IF i > Len(SemanticDictionary) THEN bestMatch
    ELSE resolveFrom(name, i + 1, resolveStep(name, SemanticDictionary[i], bestMatch))

resolveNodeRole(node) ==
    LET name == toLowerCase(node.name)
        bestMatch == resolveFrom(name, 1, NoRole)
    IN  IF bestMatch.confidence < minConfidence THEN NoRole ELSE bestMatch

\* text || nodeName || '' : the first non-empty string (NoName is an absent argument)
NoName == <<>>
contentOf(text, nodeName) == toLowerCase(IF text # <<>> THEN text ELSE nodeName)

inferToolbarAction(text, nodeName) ==
    LET content == contentOf(text, nodeName)
    IN  IF someIncluded(content, ToolbarPrimary) THEN "add"
        ELSE IF someIncluded(content, ToolbarBatch)
             THEN IF \E i \in 1..Len(ToolbarBatch) :
                         ToolbarBatch[i] = <<"i","m","p","o","r","t">> /\ includes(content, <<"i","m","p","o","r","t">>)
                  THEN "import"
                  ELSE "export"
        ELSE IF someIncluded(content, ToolbarSystem) THEN "refresh"
        ELSE "custom"

\* inferRowAction with the edit keywords tried before the danger keywords
inferRowActionEditFirst(text, nodeName) ==
    LET content == contentOf(text, nodeName)
    IN  IF someIncluded(content, OperationsEdit) THEN "edit"
        ELSE IF someIncluded(content, OperationsDanger) THEN "delete"
        ELSE IF someIncluded(content, OperationsView) THEN "view"
        ELSE "custom"

inferRowAction(text, nodeName) ==
    LET content == contentOf(text, nodeName)
    IN  IF someIncluded(content, OperationsDanger) THEN "delete"
        ELSE IF someIncluded(content, OperationsEdit) THEN "edit"
        ELSE IF someIncluded(content, OperationsView) THEN "view"
        ELSE "custom"

-----------------------------------------------------------------------------
(* Arrays *)

Abs(n) == IF n < 0 THEN -n ELSE n

\* Array.prototype.filter, keeping the order
RECURSIVE filterIdx(_, _, _)
filterIdx(n, keep, i) ==
    IF i > n THEN <<>>
    ELSE (IF i \in keep THEN <<i>> ELSE <<>>) \o filterIdx(n, keep, i + 1)

filter(s, Test(_)) ==
    LET idx == filterIdx(Len(s), {i \in 1..Len(s) : Test(s[i])}, 1)
    IN  [k \in 1..Len(idx) |-> s[idx[k]]]

\* Array.prototype.sort as a stable insertion sort: each element moves left past
\* the elements the comparator puts after it. order[i][j] is comparator(s[i], s[j]).
RECURSIVE insertionSort(_, _, _)
insertionSort(perm, i, order) ==
    IF i > Len(order) THEN perm
    ELSE LET notAfter == {j \in 1..Len(perm) : order[perm[j]][i] <= 0}
             at == IF notAfter = {} THEN 0 ELSE SeqMax(notAfter)
         IN  insertionSort(SubSeq(perm, 1, at) \o <<i>> \o SubSeq(perm, at + 1, Len(perm)),
                           i + 1, order)

sort(s, Compare(_, _)) ==
    LET order == [i \in 1..Len(s) |-> [j \in 1..Len(s) |-> Compare(s[i], s[j])]]
        perm == insertionSort(<<>>, 1, order)
    IN  [k \in 1..Len(s) |-> s[perm[k]]]

\* const value = ...: the value is computed once and the body names it
With(value, Body(_)) == Body(value)

RECURSIVE flatten(_)
flatten(ss) == IF ss = <<>> THEN <<>> ELSE Head(ss) \o flatten(Tail(ss))

-----------------------------------------------------------------------------
(* Layout protocol. Coordinates are integers; a centre, x + width / 2, is     *)
(* compared doubled so that halves stay exact.                                *)

ALIGNMENT_THRESHOLD == 5
ROW_HEIGHT_THRESHOLD == 10
LABEL_INPUT_DISTANCE == 20
LABEL_INPUT_VERTICAL_DISTANCE == 10

\* isHorizontallyAligned with the threshold included
isHorizontallyAlignedInclusive(node1, node2) ==
    Abs((2 * node1.y + node1.height) - (2 * node2.y + node2.height)) <= 2 * ALIGNMENT_THRESHOLD

isHorizontallyAligned(node1, node2) ==
    Abs((2 * node1.y + node1.height) - (2 * node2.y + node2.height)) < 2 * ALIGNMENT_THRESHOLD

isSameRow(node1, node2) == Abs(node1.y - node2.y) < ROW_HEIGHT_THRESHOLD

isSameColumn(node1, node2) == Abs(node1.x - node2.x) < ALIGNMENT_THRESHOLD

getHorizontalDistance(node1, node2) ==
    LET right1 == node1.x + node1.width
        left2 == node2.x
        left1 == node1.x
        right2 == node2.x + node2.width
    IN  IF right1 <= left2 THEN left2 - right1
        ELSE IF right2 <= left1 THEN left1 - right2
        ELSE 0

getVerticalDistance(node1, node2) ==
    LET bottom1 == node1.y + node1.height
        top2 == node2.y
        top1 == node1.y
        bottom2 == node2.y + node2.height
    IN  IF bottom1 <= top2 THEN top2 - bottom1
        ELSE IF bottom2 <= top1 THEN top1 - bottom2
        ELSE 0

isLabelInputPair(label, inputNode) ==
    IF label.type # "TEXT" THEN FALSE
    ELSE LET isHorizontalValid == getHorizontalDistance(label, inputNode) <= LABEL_INPUT_DISTANCE
             isAligned == isHorizontallyAligned(label, inputNode)
             isVerticalValid == Abs(getVerticalDistance(label, inputNode)) <= LABEL_INPUT_VERTICAL_DISTANCE
         IN  isHorizontalValid /\ isAligned /\ isVerticalValid

compareX(a, b) == a.x - b.x
compareFirstY(a, b) == a[1].y - b[1].y

\* groupByRows: the forEach over nodes from index i, with the rows and the processed set so far
RECURSIVE groupRowsFrom(_, _, _, _)
groupRowsFrom(nodes, i, rows, processed) ==
    IF i > Len(nodes) THEN rows
    ELSE IF nodes[i].id \in processed THEN groupRowsFrom(nodes, i + 1, rows, processed)
    ELSE LET inRow(n) == n.id \notin processed /\ isSameRow(nodes[i], n)
             row == sort(filter(nodes, inRow), compareX)
         IN  groupRowsFrom(nodes, i + 1, Append(rows, row),
                           processed \cup {row[k].id : k \in 1..Len(row)})

\* groupByRows that leaves the rows in the order of their seeds
groupByRowsUnsorted(nodes) == groupRowsFrom(nodes, 1, <<>>, {})

groupByRows(nodes) == sort(groupRowsFrom(nodes, 1, <<>>, {}), compareFirstY)

\* checkColumnAlignment: |x - avgX| < threshold, the average taken over the column's nodes
columnAligned(xCoords) ==
    LET RECURSIVE sum(_)
        sum(xs) == IF xs = <<>> THEN 0 ELSE Head(xs) + sum(Tail(xs))
        n == Len(xCoords)
    IN  \A k \in 1..n : Abs(n * xCoords[k] - sum(xCoords)) < n * ALIGNMENT_THRESHOLD

checkColumnAlignment(rows) ==
    IF Len(rows) < 2 THEN TRUE
    ELSE \A col \in 1..Len(rows[1]) :
            LET present == filterIdx(Len(rows), {r \in 1..Len(rows) : col <= Len(rows[r])}, 1)
                xCoords == [k \in 1..Len(present) |-> rows[present[k]][col].x]
            IN  Len(xCoords) < 2 \/ columnAligned(xCoords)

MinTableNodes == 3

\* isTableStructure without the check that every row has as many cells as the first
isTableStructureRagged(nodes) ==
    IF Len(nodes) < MinTableNodes THEN FALSE
    ELSE LET rows == groupByRows(nodes)
         IN  IF Len(rows) < 2 THEN FALSE ELSE checkColumnAlignment(rows)

isTableStructure(nodes) ==
    IF Len(nodes) < MinTableNodes THEN FALSE
    ELSE LET rows == groupByRows(nodes)
         IN  IF Len(rows) < 2 THEN FALSE
             ELSE LET firstRowCount == Len(rows[1])
                      consistentColumns == \A r \in 1..Len(rows) : Len(rows[r]) = firstRowCount
                  IN  IF ~consistentColumns THEN FALSE
                      ELSE checkColumnAlignment(rows)

-----------------------------------------------------------------------------
(* The design tree. input.nodes maps a node id to the node, whose children and *)
(* parent are ids; an id equality is the object identity of the code.          *)

Undefined == [undefined |-> TRUE]

Node(id) == input.nodes[id]
childrenOf(node) == [i \in 1..Len(node.children) |-> Node(node.children[i])]
idsOf(nodes) == [i \in 1..Len(nodes) |-> nodes[i].id]
hasNode(nodes, node) == \E i \in 1..Len(nodes) : nodes[i].id = node.id

isContainer(node) == node.type \in {"FRAME", "GROUP", "COMPONENT", "INSTANCE"}

visibleChildren(node) ==
    LET all == childrenOf(node)
        idx == filterIdx(Len(all), {i \in 1..Len(all) : all[i].visible}, 1)
    IN  [k \in 1..Len(idx) |-> all[idx[k]]]

\* The comparator of sortNodesByPosition: rows 10 apart by y, else by x
comparePosition(a, b) == IF Abs(a.y - b.y) > 10 THEN a.y - b.y ELSE a.x - b.x
sortNodesByPosition(nodes) == sort(nodes, comparePosition)

(* Naming protocol *)

matchesPattern(name, patterns) == name # <<>> /\ testAnyIgnoreCase(name, patterns)

InputKeywords == <<<<"i","n","p","u","t">>, <<"t","e","x","t">>, <<"f","i","e","l","d">>, <<"u8f93","u5165","u6846">>>>
SelectKeywords == <<<<"s","e","l","e","c","t">>, <<"d","r","o","p","d","o","w","n">>, <<"p","i","c","k","e","r">>, <<"u9009","u62e9","u5668">>, <<"u4e0b","u62c9">>>>
DateKeywords == <<<<"d","a","t","e">>, <<"t","i","m","e">>, <<"c","a","l","e","n","d","a","r">>, <<"u65e5","u671f">>, <<"u65f6","u95f4">>>>
ButtonKeywords == <<<<"b","u","t","t","o","n">>, <<"b","t","n">>, <<"u6309","u94ae">>, <<"u9875","u9762","u5207","u6362">>>>
HeaderKeywords == <<<<"h","e","a","d","e","r">>, <<"t","h">>, <<"u8868","u5934">>>>

namingIsInputComponent(name) == matchesPattern(name, InputKeywords)
isSelectComponent(name) == matchesPattern(name, SelectKeywords)
isDateComponent(name) == matchesPattern(name, DateKeywords)
isButtonComponent(name) == matchesPattern(name, ButtonKeywords)
isHeaderComponent(name) == matchesPattern(name, HeaderKeywords)

(* Intelligence engine: texts that are no action buttons *)

ExcludedStarts == <<<<"u72b6","u6001">>, <<"u5f85","u5ba1","u6838">>, <<"u5ba1","u6838","u4e2d">>, <<"u5df2","u5ba1","u6838">>, <<"u5168","u90e8">>, <<"u5171">>, <<"u7b2c">>, <<"p","a","g","e">>>>

hasDigit(s) == \E i \in 1..Len(s) : s[i] \in Digits
allDigits(s) == s # <<>> /\ \A i \in 1..Len(s) : s[i] \in Digits

\* /^\d+(\.\d+)?$/
isNumber(s) ==
    \/ allDigits(s)
    \/ \E i \in 1..Len(s) : /\ s[i] = "."
                            /\ allDigits(SubSeq(s, 1, i - 1))
                            /\ allDigits(SubSeq(s, i + 1, Len(s)))

\* one of the ExclusionPatterns matches; they are tested on lower-cased text
matchesExclusionPattern(s) ==
    \/ \E i \in 1..Len(ExcludedStarts) : startsWith(toLowerCase(s), ExcludedStarts[i])
    \/ /\ startsWith(s, <<"u5171">>) \/ startsWith(toLowerCase(s), <<"t","o","t","a","l">>)
       /\ LET rest == IF startsWith(s, <<"u5171">>) THEN Tail(s) ELSE SubSeq(s, 6, Len(s))
          IN  hasDigit(rest) \/ includes(rest, <<"u6761">>) \/ includes(toLowerCase(rest), <<"r","o","w","s">>)
    \/ /\ startsWith(s, <<"u7b2c">>) \/ startsWith(toLowerCase(s), <<"p","a","g","e">>)
       /\ LET rest == IF startsWith(s, <<"u7b2c">>) THEN Tail(s) ELSE SubSeq(s, 5, Len(s))
          IN  hasDigit(rest) \/ includes(rest, <<"u9875">>)
    \/ isNumber(s)
    \/ Len(s) >= 25

shouldExclude(text) ==
    LET content == toLowerCase(trim(text))
    IN  \/ \E i \in 1..Len(OperationsMatchers) : toLowerCase(OperationsMatchers[i]) = content
        \/ matchesExclusionPattern(content)

\* the keywords are compared as written: 'buttonGroup' never occurs in lower-cased text
ActionKeywords ==
    ToolbarMatchers \o OperationsMatchers \o ToolbarPrimary \o ToolbarBatch \o ToolbarSystem
        \o OperationsEdit \o OperationsDanger \o OperationsView

hasActionKeyword(text) == someIncluded(toLowerCase(trim(text)), ActionKeywords)
-----------------------------------------------------------------------------
(* Enhanced table processor: roles, title, search fields *)

Some(value) == [undefined |-> FALSE, value |-> value]

\* Array.prototype.find / findOneChild: the first match or Undefined
findFirst(nodes, keep) ==
    IF \E i \in 1..Len(nodes) : i \in keep
    THEN nodes[SeqMin({i \in 1..Len(nodes) : i \in keep})]
    ELSE Undefined

findTextChild(node) ==
    LET all == childrenOf(node)
    IN  findFirst(all, {i \in 1..Len(all) : all[i].type = "TEXT"})

hasRole(node, role) ==
    With(resolveNodeRole(node), LAMBDA analysis :
        analysis.role = role /\ analysis.confidence > minConfidence)

\* The loop of findComponentByRole as a depth-first search: the children of a node go
\* to the front of the queue
RECURSIVE findByRoleFromDepthFirst(_, _, _, _)
findByRoleFromDepthFirst(queue, visited, candidates, role) ==
    IF queue = <<>>
    THEN (IF candidates # <<>> THEN Node(candidates[1]) ELSE Undefined)
    ELSE LET node == Node(Head(queue))
         IN  IF node.id \in visited
             THEN findByRoleFromDepthFirst(Tail(queue), visited, candidates, role)
             ELSE With(hasRole(node, role), LAMBDA matched :
                      IF matched /\ node.visible THEN node
                      ELSE findByRoleFromDepthFirst(
                               (IF isContainer(node) THEN node.children ELSE <<>>)
                                   \o Tail(queue),
                               visited \cup {node.id},
                               IF matched THEN Append(candidates, node.id) ELSE candidates,
                               role))

\* The breadth-first loop of findComponentByRole over a queue of node ids
RECURSIVE findByRoleFrom(_, _, _, _)
findByRoleFrom(queue, visited, candidates, role) ==
    IF queue = <<>>
    THEN (IF candidates # <<>> THEN Node(candidates[1]) ELSE Undefined)
    ELSE LET node == Node(Head(queue))
         IN  IF node.id \in visited
             THEN findByRoleFrom(Tail(queue), visited, candidates, role)
             ELSE With(hasRole(node, role), LAMBDA matched :
                      IF matched /\ node.visible THEN node
                      ELSE findByRoleFrom(
                               Tail(queue)
                                   \o (IF isContainer(node) THEN node.children ELSE <<>>),
                               visited \cup {node.id},
                               IF matched THEN Append(candidates, node.id) ELSE candidates,
                               role))

findComponentByRole(root, role) ==
    IF ~isContainer(root) THEN Undefined
    ELSE findByRoleFrom(<<root.id>>, {}, <<>>, role)

inferTitleLevel(textNode) ==
    LET fontSize == IF textNode.fontSize = 0 THEN 16 ELSE textNode.fontSize
    IN  IF fontSize >= 24 THEN 1
        ELSE IF fontSize >= 20 THEN 2
        ELSE IF fontSize >= 18 THEN 3
        ELSE IF fontSize >= 16 THEN 4
        ELSE IF fontSize >= 14 THEN 5
        ELSE 6

TitleFontSize == 14

extractTableTitle(rootNode) ==
    With(findComponentByRole(rootNode, "HeaderArea"), LAMBDA headerNode :
        IF headerNode = Undefined THEN Undefined
        ELSE LET all == IF isContainer(headerNode) THEN childrenOf(headerNode) ELSE <<>>
             IN  With(findFirst(all, {i \in 1..Len(all) :
                          all[i].type = "TEXT" /\ all[i].fontSize > TitleFontSize}),
                      LAMBDA titleText :
                          IF titleText = Undefined THEN Undefined
                          ELSE [role |-> "HeaderArea", title |-> titleText.characters,
                                level |-> inferTitleLevel(titleText),
                                extra |-> Undefined]))

\* The processor's isInputComponent: by name, or a filled or stroked box of input size
isInputComponent(node) ==
    \/ namingIsInputComponent(node.name)
    \/ isSelectComponent(node.name)
    \/ isDateComponent(node.name)
    \/ /\ node.type \in {"RECTANGLE", "FRAME", "INSTANCE"}
       /\ node.hasFills \/ node.hasStrokes
       /\ node.width > 60 /\ node.height > 20 /\ node.height < 60

DateLabels == <<<<"u65e5","u671f">>, <<"u65f6","u95f4">>, <<"D","a","t","e">>, <<"T","i","m","e">>, <<"u5e74","u4efd">>, <<"u6708","u4efd">>>>
SelectLabels == <<<<"u4e0b","u62c9">>, <<"u9009","u62e9">>, <<"S","e","l","e","c","t">>, <<"C","h","o","o","s","e">>, <<"u7c7b","u578b">>, <<"u72b6","u6001">>>>
ToggleLabels == <<<<"u6536","u8d77">>, <<"u5c55","u5f00">>, <<"u9ad8","u7ea7","u641c","u7d22">>, <<"u66f4","u591a">>, <<"E","x","p","a","n","d">>, <<"C","o","l","l","a","p","s","e">>>>

\* determineFieldType with the node name asked before the label
determineFieldTypeNameFirst(node, label) ==
    IF isSelectComponent(node.name) THEN "select"
    ELSE IF isDateComponent(node.name) THEN "date"
    ELSE IF label # <<>> /\ someIncluded(label, DateLabels) THEN "date"
    ELSE IF label # <<>> /\ someIncluded(label, SelectLabels) THEN "select"
    ELSE "input"

determineFieldType(node, label) ==
    IF label # <<>> /\ someIncluded(label, DateLabels) THEN "date"
    ELSE IF label # <<>> /\ someIncluded(label, SelectLabels) THEN "select"
    ELSE IF isSelectComponent(node.name) THEN "select"
    ELSE IF isDateComponent(node.name) THEN "date"
    ELSE "input"

\* generateFieldKey: lower case, every other character to '_', runs of '_' to one,
\* one '_' off each end
keyCharacter(c) ==
    IF \/ \E i \in 1..26 : LowerCase[i] = c
       \/ c \in Digits
       \/ c \in CJK
    THEN c ELSE "_"

RECURSIVE collapseUnderscores(_)
collapseUnderscores(s) ==
    IF Len(s) < 2 THEN s
    ELSE IF s[1] = "_" /\ s[2] = "_" THEN collapseUnderscores(Tail(s))
    ELSE <<s[1]>> \o collapseUnderscores(Tail(s))

stripUnderscores(s) ==
    LET headless == IF s # <<>> /\ s[1] = "_" THEN Tail(s) ELSE s
    IN  IF headless # <<>> /\ headless[Len(headless)] = "_"
        THEN SubSeq(headless, 1, Len(headless) - 1)
        ELSE headless

generateFieldKey(label) ==
    LET lower == toLowerCase(label)
    IN  stripUnderscores(collapseUnderscores([i \in 1..Len(lower) |-> keyCharacter(lower[i])]))

PlaceholderStarts == <<<<"u8bf7","u8f93","u5165">>, <<"u8bf7","u9009","u62e9">>, <<"u8f93","u5165">>, <<"u9009","u62e9">>>>
PlaceholderWords == <<<<"p","l","a","c","e","h","o","l","d","e","r">>, <<"h","i","n","t">>>>

isPlaceholderLike(text) ==
    \/ \E i \in 1..Len(PlaceholderStarts) : startsWith(text, PlaceholderStarts[i])
    \/ testAnyIgnoreCase(text, PlaceholderWords)

extractPlaceholder(node) ==
    IF ~isContainer(node) THEN Undefined
    ELSE LET all == childrenOf(node)
         IN  With(findFirst(all, {i \in 1..Len(all) : all[i].type = "TEXT" /\ all[i].visible}),
                  LAMBDA textChild :
                      IF textChild # Undefined /\ textChild.characters # <<>>
                           /\ isPlaceholderLike(trim(textChild.characters))
                      THEN Some(trim(textChild.characters))
                      ELSE Undefined)

\* The pairing loop of extractSearchFieldsRecursive from index i on
\* The for loop without the step over the input node of a pair
RECURSIVE pairFieldsOverlapping(_, _)
pairFieldsOverlapping(children, i) ==
    IF i > Len(children) - 1 THEN <<>>
    ELSE IF isLabelInputPair(children[i], children[i + 1])
    THEN LET labelText == children[i].characters
         IN  IF someIncluded(labelText, ToggleLabels)
             THEN pairFieldsOverlapping(children, i + 1)
             ELSE <<[label |-> labelText,
                     type |-> determineFieldType(children[i + 1], labelText),
                     key |-> generateFieldKey(labelText),
                     placeholder |-> extractPlaceholder(children[i + 1])]>>
                      \o pairFieldsOverlapping(children, i + 1)
    ELSE pairFieldsOverlapping(children, i + 1)

RECURSIVE pairFields(_, _)
pairFields(children, i) ==
    IF i > Len(children) - 1 THEN <<>>
    ELSE IF isLabelInputPair(children[i], children[i + 1])
    THEN LET labelText == children[i].characters
         IN  IF someIncluded(labelText, ToggleLabels) THEN pairFields(children, i + 2)
             ELSE <<[label |-> labelText,
                     type |-> determineFieldType(children[i + 1], labelText),
                     key |-> generateFieldKey(labelText),
                     placeholder |-> extractPlaceholder(children[i + 1])]>>
                  \o pairFields(children, i + 2)
    ELSE pairFields(children, i + 1)

SearchDepth == 3

RECURSIVE extractSearchFieldsRecursive(_, _)
extractSearchFieldsRecursive(node, depth) ==
    IF depth > SearchDepth \/ ~isContainer(node) THEN <<>>
    ELSE With(sortNodesByPosition(visibleChildren(node)), LAMBDA children :
             pairFields(children, 1)
                 \o flatten([i \in 1..Len(children) |->
                         IF isContainer(children[i]) /\ ~isInputComponent(children[i])
                         THEN extractSearchFieldsRecursive(children[i], depth + 1)
                         ELSE <<>>]))
-----------------------------------------------------------------------------
(* Buttons. A call that is nested in a call of itself on the same node never  *)
(* returns: the recursion has no depth cap and the stack overflows. Such      *)
(* functions give a result that says whether they threw.                      *)

Ok(value) == [threw |-> FALSE, value |-> value, error |-> "none"]
RangeError == [threw |-> TRUE, value |-> <<>>, error |-> "RangeError"]
TypeError == [threw |-> TRUE, value |-> <<>>, error |-> "TypeError"]

RECURSIVE hasTextContent(_, _)
RECURSIVE someChildHasText(_, _, _)
hasTextContent(node, onStack) ==
    IF node.id \in onStack THEN RangeError
    ELSE IF node.type = "TEXT" THEN Ok(Len(trim(node.characters)) > 0)
    ELSE IF isContainer(node)
    THEN someChildHasText(childrenOf(node), 1, onStack \cup {node.id})
    ELSE Ok(FALSE)

someChildHasText(children, i, onStack) ==
    IF i > Len(children) THEN Ok(FALSE)
    ELSE LET found == hasTextContent(children[i], onStack)
         IN  IF found.threw \/ found.value THEN found
             ELSE someChildHasText(children, i + 1, onStack)

\* canFormButtonGroup that takes a width difference of 20 as similar
canFormButtonGroupInclusive(node1, node2) ==
    /\ Abs(node1.width - node2.width) <= 20
    /\ Abs(node1.height - node2.height) < 10
    /\ isSameRow(node1, node2) \/ isSameColumn(node1, node2)

canFormButtonGroup(node1, node2) ==
    /\ Abs(node1.width - node2.width) < 20
    /\ Abs(node1.height - node2.height) < 10
    /\ isSameRow(node1, node2) \/ isSameColumn(node1, node2)

RECURSIVE buttonGroupsFrom(_, _, _, _)
buttonGroupsFrom(nodes, i, groups, processed) ==
    IF i > Len(nodes) THEN groups
    ELSE IF nodes[i].id \in processed THEN buttonGroupsFrom(nodes, i + 1, groups, processed)
    ELSE With(filter(nodes, LAMBDA other : /\ other.id \notin processed
                                           /\ canFormButtonGroup(nodes[i], other)),
              LAMBDA group :
                  IF Len(group) >= 2
                  THEN buttonGroupsFrom(nodes, i + 1, Append(groups, group),
                                        processed \cup {group[k].id : k \in 1..Len(group)})
                  ELSE buttonGroupsFrom(nodes, i + 1, groups, processed))

identifyButtonGroups(nodes) == buttonGroupsFrom(nodes, 1, <<>>, {})

ContainerNames == <<<<"u7ec4">>, <<"g","r","o","u","p">>, <<"c","o","n","t","a","i","n","e","r">>, <<"w","r","a","p","p","e","r">>, <<"u5bb9","u5668">>>>
ButtonContainerNames == ContainerNames \o <<<<"u6309","u94ae","u7ec4">>, <<"b","u","t","t","o","n","G","r","o","u","p">>>>
PlaceholderTexts == {<<"u6587","u5b57">>, <<"t","e","x","t">>}
PlaceholderLabels == {<<"u6587","u5b57">>, <<"t","e","x","t">>, <<"l","a","b","e","l">>}
PlaceholderAll == {<<"u6587","u5b57">>, <<"t","e","x","t">>, <<"l","a","b","e","l">>, <<"p","l","a","c","e","h","o","l","d","e","r">>}
TextPropertyKeys == <<<<"u6587","u5b57">>, <<"u5185","u5bb9">>, <<"t","e","x","t">>, <<"c","o","n","t","e","n","t">>, <<"l","a","b","e","l">>, <<"u6807","u7b7e">>>>
StyleValues == {<<"u5927">>, <<"u5c0f">>, <<"u4e3b","u8981">>, <<"u6b21","u8981">>, <<"u9ed8","u8ba4">>, <<"h","o","v","e","r">>, <<"d","i","s","a","b","l","e","d">>}
IconNames == <<<<"i","c","o","n">>, <<"u56fe","u6807">>>>

hasReasonableSize(node) == node.width > 40 /\ node.height > 20 /\ node.height < 100

\* /^\d+:\d+$/
isIconId(s) ==
    \E i \in 1..Len(s) : /\ s[i] = ":"
                         /\ allDigits(SubSeq(s, 1, i - 1))
                         /\ allDigits(SubSeq(s, i + 1, Len(s)))

TextDepth == 20
HiddenTextDepth == 3

\* collectTextRecursive of extractButton: the texts under n in document order
RECURSIVE collectTextRecursive(_, _, _)
collectTextRecursive(n, depth, context) ==
    IF depth > TextDepth THEN <<>>
    ELSE LET own == IF n.type = "TEXT" /\ trim(n.characters) # <<>>
                    THEN <<[text |-> trim(n.characters), depth |-> depth, nodeName |-> n.name]>>
                    ELSE <<>>
             children == IF isContainer(n) THEN childrenOf(n) ELSE <<>>
             under(child) ==
                 IF context = "toolbar" \/ child.visible
                 THEN collectTextRecursive(child, depth + 1, context)
                 ELSE IF /\ child.type = "TEXT"
                         /\ depth <= HiddenTextDepth
                         /\ trim(child.characters) # <<>>
                         /\ toLowerCase(trim(child.characters)) \notin PlaceholderTexts
                 THEN <<[text |-> trim(child.characters), depth |-> depth + 1,
                         nodeName |-> child.name]>>
                 ELSE <<>>
         IN  own \o flatten([i \in 1..Len(children) |-> under(children[i])])

\* The texts of the component properties of an instance
propertyTexts(node) ==
    LET props == node.componentProperties
        textOf(p) ==
            IF p.isString THEN p.value
            ELSE IF p.value # <<>> THEN p.value
            ELSE <<"[","o","b","j","e","c","t"," ","O","b","j","e","c","t","]">>
        kept(p) ==
            With(trim(textOf(p)), LAMBDA trimmed :
                /\ testAnyIgnoreCase(p.key, TextPropertyKeys)
                /\ trimmed # <<>>
                /\ toLowerCase(trimmed) \notin PlaceholderLabels
                /\ trimmed \notin {<<"t","r","u","e">>, <<"f","a","l","s","e">>}
                /\ ~isIconId(trimmed)
                /\ toLowerCase(trimmed) \notin StyleValues)
    IN  With(filter(props, kept), LAMBDA named :
            [k \in 1..Len(named) |->
                [text |-> trim(textOf(named[k])), depth |-> 0,
                 nodeName |-> <<"p","r","o","p","e","r","t","y",":">> \o named[k].key]])

\* The texts of the overrides of an instance
overrideTexts(node) ==
    With(filter(node.overrides, LAMBDA override :
                    /\ trim(override.value) # <<>>
                    /\ trim(override.value) \notin PlaceholderTexts),
         LAMBDA written :
             [k \in 1..Len(written) |->
                 [text |-> trim(written[k].value), depth |-> 0,
                  nodeName |-> <<"o","v","e","r","r","i","d","e",":">> \o written[k].id]])

\* /^[\u{1F300}-\u{1F9FF}]$/u: the text is one character of that block. A character
\* above U+FFFF is two units of a string; the units written here are those of
\* U+1F600 and U+1F50D
EmojiTexts == {<<"uD83D", "uDE00">>, <<"uD83D", "uDD0D">>}
isEmoji(text) == text \in EmojiTexts

\* The last of the longest texts
RECURSIVE longestFromLast(_, _, _)
longestFromLast(texts, i, best) ==
    IF i > Len(texts) THEN best
    ELSE longestFromLast(texts, i + 1,
                         IF Len(texts[i].text) >= Len(best.text) THEN texts[i] ELSE best)

\* The first of the longest texts
RECURSIVE longestFrom(_, _, _)
longestFrom(texts, i, best) ==
    IF i > Len(texts) THEN best
    ELSE longestFrom(texts, i + 1,
                     IF Len(texts[i].text) > Len(best.text) THEN texts[i] ELSE best)

inferActionType(text, name, context) ==
    IF context = "toolbar" THEN inferToolbarAction(text, name) ELSE inferRowAction(text, name)

\* The text extractButton settles on, <<>> if none
buttonTextOf(node, context) ==
    LET notPlaceholder(t) ==
            ~ \/ toLowerCase(t.text) \in PlaceholderAll
              \/ Len(t.text) <= 1
              \/ isEmoji(t.text)
              \/ testAnyIgnoreCase(t.nodeName, IconNames)
        usable(override) ==
            /\ trim(override.value) # <<>>
            /\ \/ context = "toolbar"
               \/ toLowerCase(trim(override.value)) \notin PlaceholderAll
        overrides == IF node.type = "INSTANCE" THEN node.overrides ELSE <<>>
        settled(allTextNodes, filtered, written) ==
            IF allTextNodes = <<>> THEN <<>>
            ELSE IF filtered # <<>> THEN longestFrom(filtered, 2, filtered[1]).text
            ELSE IF written # <<>> THEN trim(written[1].value)
            ELSE IF context = "toolbar" THEN allTextNodes[1].text
            ELSE <<>>
    IN  With(collectTextRecursive(node, 0, context)
                 \o (IF node.type = "INSTANCE"
                     THEN propertyTexts(node) \o overrideTexts(node) ELSE <<>>),
             LAMBDA allTextNodes :
                 settled(allTextNodes, filter(allTextNodes, notPlaceholder),
                         filter(overrides, usable)))

extractButton(node, context) ==
    IF testAnyIgnoreCase(node.name, ButtonContainerNames) /\ isContainer(node)
    THEN Undefined
    ELSE With(buttonTextOf(node, context), LAMBDA buttonText :
             IF buttonText = <<>> THEN Undefined
             ELSE [type |-> IF context = "search" THEN "custom"
                            ELSE inferActionType(buttonText, node.name, "toolbar"),
                   label |-> buttonText, key |-> generateFieldKey(buttonText)])

inferButtonLayout(nodes) ==
    IF \A i \in 1..Len(nodes) : i = 1 \/ isSameRow(nodes[1], nodes[i])
    THEN "horizontal" ELSE "vertical"

inferButtonAlign(nodes) ==
    IF nodes = <<>> THEN "left"
    ELSE LET leftOffset == SeqMin({nodes[i].x : i \in 1..Len(nodes)})
         IN  IF Abs(leftOffset) < 20 THEN "center"
             ELSE IF leftOffset > 0 THEN "right"
             ELSE "left"

\* One level of the breadth-first search of extractButtonGroup: the candidates
\* and the next level's queue after the nodes from index i on
RECURSIVE buttonLevel(_, _, _, _)
buttonLevel(level, i, candidates, queue) ==
    IF i > Len(level) THEN [candidates |-> candidates, queue |-> queue]
    ELSE LET node == level[i]
             isButton == /\ ~testAnyIgnoreCase(node.name, ContainerNames)
                         /\ isButtonComponent(node.name)
             parent == IF node.parent = 0 THEN Undefined ELSE Node(node.parent)
         IN  IF isButton THEN buttonLevel(level, i + 1, Append(candidates, node), queue)
             ELSE IF isContainer(node)
             THEN buttonLevel(level, i + 1, candidates, queue \o visibleChildren(node))
             ELSE IF /\ node.type = "TEXT"
                     /\ parent # Undefined
                     /\ ~hasNode(candidates, parent)
                     /\ hasReasonableSize(parent)
             THEN buttonLevel(level, i + 1, Append(candidates, parent), queue)
             ELSE buttonLevel(level, i + 1, candidates, queue)

ButtonDepth == 5

RECURSIVE buttonLevels(_, _, _)
buttonLevels(queue, depth, candidates) ==
    IF queue = <<>> \/ depth >= ButtonDepth THEN candidates
    ELSE With(buttonLevel(queue, 1, candidates, <<>>), LAMBDA after :
             buttonLevels(after.queue, depth + 1, after.candidates))

\* findTextBasedButtons: the candidates after nodeList from index i on
RECURSIVE findTextBasedButtons(_, _, _, _)
findTextBasedButtons(nodeList, i, currentDepth, candidates) ==
    IF currentDepth > ButtonDepth \/ i > Len(nodeList) THEN Ok(candidates)
    ELSE LET node == nodeList[i]
             isButtonContainer == testAnyIgnoreCase(node.name, ContainerNames)
             under(here) ==
                 IF isContainer(node)
                 THEN findTextBasedButtons(visibleChildren(node), 1, currentDepth + 1, here)
                 ELSE Ok(here)
             after(below) ==
                 IF below.threw THEN RangeError
                 ELSE findTextBasedButtons(nodeList, i + 1, currentDepth, below.value)
         IN  IF isButtonContainer THEN after(under(candidates))
             ELSE With(hasTextContent(node, {}), LAMBDA hasText :
                      IF hasText.threw THEN RangeError
                      ELSE IF /\ hasText.value
                              /\ hasReasonableSize(node)
                              /\ ~hasNode(candidates, node)
                      THEN after(under(Append(candidates, node)))
                      ELSE after(under(candidates)))

RECURSIVE decimal(_)
decimal(n) ==
    LET digit == <<"0", "1", "2", "3", "4", "5", "6", "7", "8", "9">>
    IN  IF n < 10 THEN <<digit[n + 1]>> ELSE decimal(n \div 10) \o <<digit[(n % 10) + 1]>>

\* The toolbar button made from the name of the i-th target node
fallbackButton(btnNode, i) ==
    LET nodeName == trim(btnNode.name)
        overrides == IF btnNode.type = "INSTANCE" THEN btnNode.overrides ELSE <<>>
        written == {k \in 1..Len(overrides) : trim(overrides[k].value) # <<>>}
        buttonLabel ==
            IF nodeName \notin {<<>>, <<"u6309","u94ae">>, <<"b","u","t","t","o","n">>} /\ Len(nodeName) > 1 THEN nodeName
            ELSE IF written # {} THEN trim(overrides[SeqMin(written)].value)
            ELSE <<"u6309","u94ae">> \o decimal(i)
    IN  [type |-> inferActionType(buttonLabel, nodeName, "toolbar"),
         label |-> buttonLabel, key |-> generateFieldKey(buttonLabel)]

\* The group made of the target buttons, Undefined if none of them gives a button
buttonGroupOf(targetButtons, type) ==
    LET group(buttons) ==
            [type |-> type, buttons |-> buttons,
             layout |-> inferButtonLayout(targetButtons),
             align |-> inferButtonAlign(targetButtons)]
    IN  With(filter([i \in 1..Len(targetButtons) |-> extractButton(targetButtons[i], type)],
                    LAMBDA button : button # Undefined),
             LAMBDA allButtons :
                 IF allButtons # <<>> THEN group(allButtons)
                 ELSE IF type = "toolbar"
                 THEN group([i \in 1..Len(targetButtons) |->
                                fallbackButton(targetButtons[i], i)])
                 ELSE Undefined)

\* The candidates by name, or by text if no name gives one
buttonCandidates(nodes) ==
    With(buttonLevels(nodes, 0, <<>>), LAMBDA named :
        IF named = <<>> THEN findTextBasedButtons(nodes, 1, 0, <<>>) ELSE Ok(named))

extractButtonGroup(nodes, type) ==
    IF nodes = <<>> THEN Ok(Undefined)
    ELSE With(buttonCandidates(nodes), LAMBDA found :
             IF found.threw THEN RangeError
             ELSE IF found.value = <<>> THEN Ok(Undefined)
             ELSE With(identifyButtonGroups(found.value), LAMBDA buttonGroups :
                      Ok(buttonGroupOf(IF buttonGroups # <<>> THEN buttonGroups[1]
                                       ELSE found.value, type))))
-----------------------------------------------------------------------------
(* Table columns *)

isExplicitActionColumnName(name) == testAnyIgnoreCase(name, OperationsMatchers)

isExplicitActionColumn(node) ==
    hasRole(node, "OperationGroup") \/ isExplicitActionColumnName(node.name)

\* the centres are compared doubled: |difference| < 2.5
determineTextAlignment(textNode, container) ==
    LET textCenterX2 == 2 * textNode.x + textNode.width
        containerCenterX2 == 2 * container.x + container.width
    IN  IF Abs(textCenterX2 - containerCenterX2) < 5 THEN "center"
        ELSE IF textCenterX2 < containerCenterX2 THEN "left"
        ELSE "right"

\* The column a child of the header gives; its title is empty if it gives none
headerColumn(child, headerNode) ==
    LET column(title, align) ==
            [title |-> title, dataIndex |-> generateFieldKey(title), width |-> child.width,
             align |-> align]
    IN  IF child.type = "TEXT"
        THEN column(child.characters, determineTextAlignment(child, headerNode))
        ELSE IF isContainer(child)
        THEN With(findTextChild(child), LAMBDA textChild :
                 IF textChild # Undefined
                 THEN column(textChild.characters, determineTextAlignment(textChild, child))
                 ELSE column(<<>>, "left"))
        ELSE column(<<>>, "left")

extractTableColumnsFromHeader(headerNode) ==
    IF ~isContainer(headerNode) THEN <<>>
    ELSE With(sortNodesByPosition(visibleChildren(headerNode)), LAMBDA children :
             filter([i \in 1..Len(children) |-> headerColumn(children[i], headerNode)],
                    LAMBDA column : column.title # <<>>))

RECURSIVE collectTextNodes(_, _)
RECURSIVE collectTextNodesOf(_, _, _)
collectTextNodes(node, onStack) ==
    IF node.id \in onStack THEN RangeError
    ELSE IF node.type = "TEXT" THEN Ok(<<node>>)
    ELSE IF isContainer(node)
    THEN collectTextNodesOf(childrenOf(node), 1, onStack \cup {node.id})
    ELSE Ok(<<>>)

collectTextNodesOf(children, i, onStack) ==
    IF i > Len(children) THEN Ok(<<>>)
    ELSE With(collectTextNodes(children[i], onStack), LAMBDA first :
             IF first.threw THEN RangeError
             ELSE With(collectTextNodesOf(children, i + 1, onStack), LAMBDA rest :
                      IF rest.threw THEN RangeError ELSE Ok(first.value \o rest.value)))

SearchWords == <<<<"u641c","u7d22">>, <<"u67e5","u8be2">>, <<"u7b5b","u9009">>, <<"u5173","u952e","u5b57">>, <<"k","e","y","w","o","r","d">>, <<"s","e","a","r","c","h">>, <<"f","i","l","t","e","r">>,
                 <<"q","u","e","r","y">>>>
TitleEndings == <<<<"u5217","u8868">>, <<"u7ba1","u7406">>, <<"u4fe1","u606f">>, <<"u9875","u9762">>>>

isSearchRelatedText(content) == testAnyIgnoreCase(content, SearchWords)

isTitleText(content) ==
    \/ \E i \in 1..Len(TitleEndings) : endsWith(content, TitleEndings[i])
    \/ startsWith(content, <<"u7528","u6237">>)

compareY(a, b) == a.y - b.y

\* The grouping loop of groupTextsByRow from index i on
RECURSIVE textRowsFrom(_, _, _, _, _)
textRowsFrom(sorted, i, rows, currentRow, currentY) ==
    IF i > Len(sorted) THEN Append(rows, sort(currentRow, compareX))
    ELSE IF Abs(sorted[i].y - currentY) <= ROW_HEIGHT_THRESHOLD
    THEN textRowsFrom(sorted, i + 1, rows, Append(currentRow, sorted[i]), currentY)
    ELSE textRowsFrom(sorted, i + 1, Append(rows, sort(currentRow, compareX)),
                      <<sorted[i]>>, sorted[i].y)

\* groupTextsByRow without the test for an empty list: reads sorted[0].y of nothing
groupTextsByRowUnguarded(textNodes) ==
    IF textNodes = <<>> THEN TypeError
    ELSE With(sort(textNodes, compareY), LAMBDA sorted :
             Ok(textRowsFrom(sorted, 2, <<>>, <<sorted[1]>>, sorted[1].y)))

groupTextsByRow(textNodes) ==
    IF textNodes = <<>> THEN Ok(<<>>)
    ELSE With(sort(textNodes, compareY), LAMBDA sorted :
             Ok(textRowsFrom(sorted, 2, <<>>, <<sorted[1]>>, sorted[1].y)))

MaxHeaderLength == 50
DefaultColumnWidth == 100

\* bestRowFrom that takes a row of one text as well
RECURSIVE bestRowFromOfOne(_, _, _)
bestRowFromOfOne(rows, i, bestRow) ==
    IF i > Len(rows) THEN bestRow
    ELSE bestRowFromOfOne(rows, i + 1,
                          IF Len(rows[i]) > Len(bestRow) THEN rows[i] ELSE bestRow)

\* The first of the longest rows of at least two texts, <<>> if there is none
RECURSIVE bestRowFrom(_, _, _)
bestRowFrom(rows, i, bestRow) ==
    IF i > Len(rows) THEN bestRow
    ELSE bestRowFrom(rows, i + 1,
                     IF Len(rows[i]) >= 2 /\ Len(rows[i]) > Len(bestRow) THEN rows[i]
                     ELSE bestRow)

\* The columns of the texts of the best row
layoutColumn(header) ==
    [title |-> trim(header.characters),
     dataIndex |-> generateFieldKey(trim(header.characters)),
     width |-> IF header.width = 0 THEN DefaultColumnWidth ELSE header.width,
     align |-> "left"]

extractColumnsFromLayout(node) ==
    LET valid(text) ==
            With(trim(text.characters), LAMBDA content :
                /\ Len(content) > 0
                /\ Len(content) < MaxHeaderLength
                /\ ~isSearchRelatedText(content)
                /\ ~isTitleText(content))
    IN  With(collectTextNodes(node, {}), LAMBDA allTextNodes :
            IF allTextNodes.threw THEN RangeError
            ELSE With(groupTextsByRow(filter(allTextNodes.value, valid)), LAMBDA rows :
                     IF rows.threw THEN rows
                     ELSE With(bestRowFrom(rows.value, 1, <<>>), LAMBDA bestRow :
                              Ok([i \in 1..Len(bestRow) |-> layoutColumn(bestRow[i])]))))

ColumnsNames == <<<<"c","o","l","u","m","n","s">>, <<"u8868","u5934">>, <<"u5217","u5b9a","u4e49">>>>
ColumnNames == <<<<"u5217">>, <<"c","o","l","u","m","n">>>>
LayoutGroupNames == <<<<"g","r","o","u","p">>, <<"l","e","f","t">>, <<"r","i","g","h","t">>, <<"c","e","n","t","e","r">>, <<"m","i","d","d","l","e">>, <<"l","a","y","o","u","t">>, <<"a","u","t","o">>>>
TitleNames == <<<<"t","i","t","l","e">>, <<"h","e","a","d","e","r">>, <<"n","a","m","e">>, <<"l","a","b","e","l">>, <<"c","a","p","t","i","o","n">>, <<"t","e","x","t">>, <<"u6807","u9898">>,
                <<"u540d","u79f0">>, <<"u6587","u5b57">>>>

TitleDepth == 10
NoTitle == [text |-> <<>>, score |-> 0]

\* findTitleText: the best-scored text under n
RECURSIVE findTitleText(_, _)
RECURSIVE bestTitleFrom(_, _, _, _)
findTitleText(n, d) ==
    IF d > TitleDepth THEN NoTitle
    ELSE IF n.type = "TEXT"
    THEN LET name == toLowerCase(n.name)
             score(content) == 1 + (IF someIncluded(name, TitleNames)
                                    THEN 10 + (IF name \in {<<"t","i","t","l","e">>, <<"u6807","u9898">>} THEN 5 ELSE 0)
                                    ELSE 0)
                                 - (IF Len(content) > 20 THEN 5 ELSE 0)
                                 - (IF allDigits(content) THEN 2 ELSE 0)
         IN  With(trim(n.characters), LAMBDA content :
                 IF content = <<>> THEN NoTitle
                 ELSE [text |-> content, score |-> score(content)])
    ELSE IF isContainer(n) THEN bestTitleFrom(childrenOf(n), 1, d, NoTitle)
    ELSE NoTitle

bestTitleFrom(children, i, d, bestResult) ==
    IF i > Len(children) THEN bestResult
    ELSE With(findTitleText(children[i], d + 1), LAMBDA res :
             bestTitleFrom(children, i + 1, d,
                           IF res.score > bestResult.score THEN res ELSE bestResult))

\* The nodes a columns container or a container of column components offers
potentialColumnsOf(node, children) ==
    LET expanded(unwrapped) ==
            flatten([i \in 1..Len(unwrapped) |->
                IF /\ isContainer(unwrapped[i])
                   /\ testAnyIgnoreCase(unwrapped[i].name, LayoutGroupNames)
                THEN visibleChildren(unwrapped[i])
                ELSE <<unwrapped[i]>>])
    IN  IF testAnyIgnoreCase(node.name, ColumnsNames)
        THEN filter(expanded(IF Len(children) = 1 /\ isContainer(children[1])
                             THEN visibleChildren(children[1]) ELSE children),
                    LAMBDA n : isContainer(n) \/ n.type = "TEXT")
        ELSE filter(children, LAMBDA n : testAnyIgnoreCase(n.name, ColumnNames))

\* The forEach over the column nodes: the columns after the nodes from index i on
RECURSIVE columnsFrom(_, _, _, _)
columnsFrom(potentialColumns, i, cols, seenTitles) ==
    IF i > Len(potentialColumns) THEN cols
    ELSE LET colNode == potentialColumns[i]
             parentWidth == IF colNode.parent = 0 THEN 0 ELSE Node(colNode.parent).width
         IN  With(findTitleText(colNode, 0), LAMBDA result :
                 IF result.score <= 0 \/ result.text \in seenTitles
                 THEN columnsFrom(potentialColumns, i + 1, cols, seenTitles)
                 ELSE columnsFrom(potentialColumns, i + 1,
                          IF \/ 10 * colNode.width > 8 * parentWidth
                             \/ isExplicitActionColumn(colNode)
                             \/ isExplicitActionColumnName(result.text)
                          THEN cols
                          ELSE Append(cols, [title |-> result.text,
                                             dataIndex |-> generateFieldKey(result.text),
                                             width |-> colNode.width, align |-> "left"]),
                          seenTitles \cup {result.text}))

ColumnDepth == 4

\* a child with a text of its own or, for a container, a text child
hasOwnText(n) == n.type = "TEXT" \/ (isContainer(n) /\ findTextChild(n) # Undefined)

inferredHeader(firstRow) ==
    [id |-> 0, name |-> <<"i","n","f","e","r","r","e","d","-","h","e","a","d","e","r">>, type |-> "FRAME", children |-> idsOf(firstRow),
     x |-> 0, y |-> 0, width |-> 0, height |-> 0, visible |-> TRUE]

\* acceptedHeaderColumns that takes a single column of exactly 80% of the width
acceptedHeaderColumnsInclusive(node) ==
    With(extractTableColumnsFromHeader(node), LAMBDA headerColumns :
        IF \/ Len(headerColumns) > 1
           \/ Len(headerColumns) = 1 /\ 10 * headerColumns[1].width <= 8 * node.width
        THEN headerColumns ELSE <<>>)

\* The columns the header strategy accepts for a node with a header name
acceptedHeaderColumns(node) ==
    With(extractTableColumnsFromHeader(node), LAMBDA headerColumns :
        IF \/ Len(headerColumns) > 1
           \/ Len(headerColumns) = 1 /\ 10 * headerColumns[1].width < 8 * node.width
        THEN headerColumns ELSE <<>>)

\* The columns of the column components of a node
columnComponents(node, children) ==
    IF \/ testAnyIgnoreCase(node.name, ColumnsNames)
       \/ \E i \in 1..Len(children) : testAnyIgnoreCase(children[i].name, ColumnNames)
    THEN columnsFrom(potentialColumnsOf(node, children), 1, <<>>, {})
    ELSE <<>>

\* The grid and first-child strategies: whether they return, and what
structureColumns(children) ==
    IF isTableStructure(children)
    THEN With(groupByRows(children)[1], LAMBDA firstRow :
             IF \A i \in 1..Len(firstRow) : hasOwnText(firstRow[i])
             THEN [returns |-> TRUE,
                   value |-> extractTableColumnsFromHeader(inferredHeader(firstRow))]
             ELSE [returns |-> FALSE, value |-> <<>>])
    ELSE IF children # <<>> /\ isContainer(children[1])
                            /\ children[1].type \in {"FRAME", "INSTANCE", "GROUP"}
    THEN With(visibleChildren(children[1]), LAMBDA headerChildren :
             IF /\ Len(headerChildren) > 1
                /\ 2 * Cardinality({i \in 1..Len(headerChildren) :
                                       hasOwnText(headerChildren[i])}) > Len(headerChildren)
             THEN [returns |-> TRUE, value |-> extractTableColumnsFromHeader(children[1])]
             ELSE [returns |-> FALSE, value |-> <<>>])
    ELSE [returns |-> FALSE, value |-> <<>>]

\* A call for a node and depth that is nested in the same call never returns: the
\* columns child is entered at depth 0 again, so the depth cap does not end it.
RECURSIVE extractTableColumnsRecursive(_, _, _)
RECURSIVE columnsOfChildren(_, _, _, _)
RECURSIVE columnsByStrategy(_, _, _, _, _, _)
extractTableColumnsRecursive(node, depth, onStack) ==
    IF <<node.id, depth>> \in onStack THEN RangeError
    ELSE IF depth > ColumnDepth \/ ~isContainer(node) THEN Ok(<<>>)
    ELSE With(sortNodesByPosition(visibleChildren(node)), LAMBDA children :
             columnsByStrategy(node, depth, onStack \cup {<<node.id, depth>>}, children,
                 With(findFirst(children, {i \in 1..Len(children) :
                          testAnyIgnoreCase(children[i].name, ColumnsNames)}),
                      LAMBDA columnsNode :
                          IF columnsNode = Undefined THEN Ok(<<>>)
                          ELSE extractTableColumnsRecursive(
                                   columnsNode, 0, onStack \cup {<<node.id, depth>>})),
                 1))

\* The strategies in the order the code tries them, from the given one on; found
\* is what the strategy before gave
columnsByStrategy(node, depth, onStack, children, found, strategy) ==
    IF found.threw \/ found.value # <<>> THEN found
    ELSE IF strategy = 1
    THEN columnsByStrategy(node, depth, onStack, children,
             Ok(IF isHeaderComponent(node.name) THEN acceptedHeaderColumns(node) ELSE <<>>), 2)
    ELSE IF strategy = 2
    THEN columnsByStrategy(node, depth, onStack, children,
             Ok(columnComponents(node, children)), 3)
    ELSE IF strategy = 3
    THEN With(structureColumns(children), LAMBDA structure :
             IF structure.returns THEN Ok(structure.value)
             ELSE columnsByStrategy(node, depth, onStack, children,
                      IF depth = 0 THEN extractColumnsFromLayout(node) ELSE Ok(<<>>), 4))
    ELSE columnsOfChildren(children, 1, depth, onStack)

columnsOfChildren(children, i, depth, onStack) ==
    IF i > Len(children) THEN Ok(<<>>)
    ELSE With(extractTableColumnsRecursive(children[i], depth + 1, onStack), LAMBDA cols :
             IF cols.threw \/ cols.value # <<>> THEN cols
             ELSE columnsOfChildren(children, i + 1, depth, onStack))
-----------------------------------------------------------------------------
(* Operation column *)

WrapperWidth == 400
WrapperChildren == 3
SafetyLimit == 1000

\* One iteration of the while loop of findOperationNodesRecursive
operationStep(s) ==
    LET node == Node(Head(s.queue))
        isTooWide == node.width > WrapperWidth
        hasOtherColumns ==
            isContainer(node) /\ Len(node.children) > WrapperChildren /\ isTooWide
        counted == [s EXCEPT !.queue = Tail(s.queue), !.safetyCounter = s.safetyCounter + 1]
    IN  IF ~node.visible THEN counted
        ELSE IF isExplicitActionColumn(node) /\ ~(isTooWide \/ hasOtherColumns)
        THEN [counted EXCEPT !.results = Append(s.results, node.id)]
        ELSE IF isContainer(node)
        THEN [counted EXCEPT !.queue = Tail(s.queue) \o node.children]
        ELSE counted

\* The while loop, at most n more iterations; the loop is cut in halves
RECURSIVE operationLoop(_, _)
operationLoop(s, n) ==
    IF n = 0 \/ s.queue = <<>> \/ s.safetyCounter >= SafetyLimit THEN s
    ELSE IF n = 1 THEN operationStep(s)
    ELSE LET half == operationLoop(s, n \div 2)
         IN  IF half.queue = <<>> THEN half ELSE operationLoop(half, n - n \div 2)

findOperationNodesRecursive(roots) ==
    With(operationLoop([queue |-> idsOf(roots), results |-> <<>>, safetyCounter |-> 0],
                       SafetyLimit),
         LAMBDA final : [i \in 1..Len(final.results) |-> Node(final.results[i])])

ActionTextDepth == 5

\* findTextRecursive of extractActionButton: the first text under n
RECURSIVE findTextRecursive(_, _)
RECURSIVE firstTextFrom(_, _, _)
findTextRecursive(n, depth) ==
    IF depth > ActionTextDepth THEN <<>>
    ELSE IF n.type = "TEXT" /\ trim(n.characters) # <<>> THEN trim(n.characters)
    ELSE IF isContainer(n) THEN firstTextFrom(childrenOf(n), 1, depth)
    ELSE <<>>

firstTextFrom(children, i, depth) ==
    IF i > Len(children) THEN <<>>
    ELSE With(IF children[i].visible THEN findTextRecursive(children[i], depth + 1)
              ELSE <<>>,
              LAMBDA text :
                  IF text # <<>> THEN text ELSE firstTextFrom(children, i + 1, depth))

ValidActionTypes == {"edit", "delete", "view", "custom"}

extractActionButton(node) ==
    With(findTextRecursive(node, 0), LAMBDA buttonText :
        IF buttonText = <<>> \/ shouldExclude(buttonText) \/ ~hasActionKeyword(buttonText)
        THEN Undefined
        ELSE With(inferActionType(buttonText, node.name, "operations"), LAMBDA actionType :
                 IF actionType \notin ValidActionTypes THEN Undefined
                 ELSE
                 [type |-> actionType, label |-> buttonText,
                  key |-> generateFieldKey(buttonText),
                  danger |-> actionType = "delete",
                  confirm |-> IF actionType = "delete"
                              THEN [title |-> <<"u786e","u8ba4","u5220","u9664">>,
                                    content |-> <<"u786e","u5b9a","u8981","u5220","u9664","u8fd9","u6761","u8bb0","u5f55","u5417","uff1f">>]
                              ELSE Undefined]))

ActionColumn ==
    [title |-> <<"u64cd","u4f5c">>, dataIndex |-> <<"a","c","t","i","o","n","s">>, type |-> "action", width |-> 150,
     align |-> "center", fixed |-> "right"]

\* uniqueButtons that keeps every button
uniqueButtonsKeepingAll(buttons) == buttons

\* The buttons with the first of each key kept
uniqueButtons(buttons) ==
    LET first == filterIdx(Len(buttons),
                     {i \in 1..Len(buttons) :
                         \A j \in 1..(i - 1) : buttons[j].key # buttons[i].key}, 1)
    IN  [k \in 1..Len(first) |-> buttons[first[k]]]

\* The buttons the operation nodes give
actionButtonsOf(actionNodes) ==
    With(flatten([i \in 1..Len(actionNodes) |->
             IF isContainer(actionNodes[i]) THEN visibleChildren(actionNodes[i])
             ELSE <<actionNodes[i]>>]),
         LAMBDA sources :
             filter([i \in 1..Len(sources) |-> extractActionButton(sources[i])],
                    LAMBDA button : button # Undefined))

extractOperationGroup(nodes) ==
    With(findOperationNodesRecursive(nodes), LAMBDA actionNodes :
        IF actionNodes = <<>> THEN Undefined
        ELSE With(actionButtonsOf(actionNodes), LAMBDA buttons :
                 IF buttons = <<>> THEN Undefined
                 ELSE [column |-> ActionColumn, buttons |-> uniqueButtons(buttons)]))

(* processTablePage *)

TitleLikeNames == <<<<"t","i","t","l","e">>, <<"h","e","a","d","e","r">>, <<"c","a","p","t","i","o","n">>, <<"u6807","u9898">>, <<"u8868","u5934">>>>

\* The node the columns are read from: a sibling with the grid role when the
\* grid node found has a title-like name
actualTableNodeOf(tableAreaNode) ==
    LET siblingIds == IF tableAreaNode.parent = 0 THEN <<>>
                      ELSE Node(tableAreaNode.parent).children
        siblings == [i \in 1..Len(siblingIds) |-> Node(siblingIds[i])]
    IN  IF testAnyIgnoreCase(toLowerCase(tableAreaNode.name), TitleLikeNames)
        THEN With(findFirst(siblings, {i \in 1..Len(siblings) :
                      /\ siblings[i].visible
                      /\ siblings[i].id # tableAreaNode.id
                      /\ hasRole(siblings[i], "DataGrid")}),
                  LAMBDA realTableNode :
                      IF realTableNode # Undefined THEN realTableNode ELSE tableAreaNode)
        ELSE tableAreaNode

\* columns.filter(col => col.dataIndex !== 'actions')
withoutActions(cols) == filter(cols, LAMBDA col : col.dataIndex # <<"a","c","t","i","o","n","s">>)

\* The search stage: fields and buttons
searchStage(node) ==
    With(findComponentByRole(node, "SearchArea"), LAMBDA searchAreaNode :
        IF searchAreaNode = Undefined
        THEN Ok([fields |-> extractSearchFieldsRecursive(node, 0), buttons |-> Undefined])
        ELSE With(extractButtonGroup(
                      filter(IF isContainer(searchAreaNode) THEN childrenOf(searchAreaNode)
                             ELSE <<>>,
                             LAMBDA child : isButtonComponent(child.name)),
                      "search"),
                  LAMBDA searchButtons :
                      IF searchButtons.threw THEN searchButtons
                      ELSE Ok([fields |-> extractSearchFieldsRecursive(searchAreaNode, 0),
                               buttons |-> searchButtons.value])))

\* The toolbar buttons of the node with the action group role
toolbarStage(node) ==
    With(findComponentByRole(node, "ActionGroup"), LAMBDA actionGroupNode :
        IF actionGroupNode = Undefined THEN Ok(Undefined)
        ELSE extractButtonGroup(<<actionGroupNode>>, "toolbar"))

\* The row actions found under the grid node
operationStage(tableAreaNode) ==
    With(extractOperationGroup(sortNodesByPosition(visibleChildren(tableAreaNode))),
         LAMBDA actionResult :
             IF actionResult # Undefined THEN Some(actionResult.buttons) ELSE Undefined)

\* Without a grid node the whole page is scanned for columns
scanStage(node) ==
    With(extractTableColumnsRecursive(node, 0, {}), LAMBDA scanned :
        IF scanned.threw THEN scanned
        ELSE Ok([columns |-> scanned.value, toolbarRight |-> Undefined,
                 actionButtons |-> Undefined]))

\* The grid stage with the 'actions' columns left in
gridStageKeepingActions(node) ==
    With(findComponentByRole(node, "DataGrid"), LAMBDA tableAreaNode :
        IF tableAreaNode = Undefined THEN scanStage(node)
        ELSE With(extractTableColumnsRecursive(actualTableNodeOf(tableAreaNode), 0, {}),
                  LAMBDA found :
                      IF found.threw THEN found
                      ELSE With(toolbarStage(node), LAMBDA toolbar :
                               IF toolbar.threw THEN toolbar
                               ELSE Ok([columns |-> found.value,
                                        toolbarRight |-> toolbar.value,
                                        actionButtons |-> operationStage(tableAreaNode)]))))

\* The grid stage: columns, toolbar and row actions
gridStage(node) ==
    With(findComponentByRole(node, "DataGrid"), LAMBDA tableAreaNode :
        IF tableAreaNode = Undefined THEN scanStage(node)
        ELSE With(extractTableColumnsRecursive(actualTableNodeOf(tableAreaNode), 0, {}),
                  LAMBDA found :
                      IF found.threw THEN found
                      ELSE With(toolbarStage(node), LAMBDA toolbar :
                               IF toolbar.threw THEN toolbar
                               ELSE Ok([columns |-> withoutActions(found.value),
                                        toolbarRight |-> toolbar.value,
                                        actionButtons |-> operationStage(tableAreaNode)]))))

\* The model returned for what the stages found
pageModel(tableTitle, search, grid) ==
    [role |-> "TableContainer",
     type |-> "table-page",
     header |-> tableTitle,
     body |->
        [role |-> "BodyArea",
         search |-> [role |-> "SearchArea", fields |-> search.fields,
                     buttons |-> search.buttons],
         table |-> [role |-> "DataGrid",
                    columns |-> grid.columns,
                    rowSelection |-> [type |-> "checkbox", showSelectAll |-> TRUE],
                    actionColumn |->
                        IF grid.actionButtons # Undefined
                        THEN [column |-> ActionColumn, buttons |-> grid.actionButtons.value]
                        ELSE Undefined],
         pagination |-> [role |-> "PaginationBar", enabled |-> TRUE,
                         pageSize |-> 20, showSizeChanger |-> TRUE,
                         showQuickJumper |-> TRUE],
         toolbar |-> IF grid.toolbarRight # Undefined
                     THEN [role |-> "ActionGroup", left |-> Undefined,
                           right |-> grid.toolbarRight]
                     ELSE Undefined]]

processTablePage(node) ==
    With(searchStage(node), LAMBDA search :
        IF search.threw THEN search
        ELSE With(gridStage(node), LAMBDA grid :
                 IF grid.threw THEN grid
                 ELSE Ok(pageModel(extractTableTitle(node), search.value, grid.value))))
-----------------------------------------------------------------------------
(* Calls of the pure functions: the inputs are drawn in Init, the call returns *)
(* its value in output.                                                        *)

NoResult == [op |-> "none"]

(* isLabelInputPair *)

PairRange == 12
LabelBoxes ==
    {[type |-> t, x |-> 0, y |-> 0, width |-> 40, height |-> h] :
        t \in {"TEXT", "FRAME"}, h \in {4, 20}}
InputBoxes ==
    {[type |-> "RECTANGLE", x |-> x, y |-> y, width |-> 100, height |-> h] :
        x \in {50, 60, 61, -120, -121}, y \in -PairRange..PairRange, h \in {2, 20, 29, 30, 31}}

InitPair ==
    /\ input \in [label : LabelBoxes, inputNode : InputBoxes]
    /\ output = NoResult

CallIsLabelInputPair ==
    /\ output = NoResult
    /\ output' = [op |-> "isLabelInputPair", value |-> isLabelInputPair(input.label, input.inputNode)]
    /\ UNCHANGED input

SpecPair == InitPair /\ [][CallIsLabelInputPair]_vars

(* isTableStructure *)

MaxRows == 3
MaxCols == 3
RowPitch == 40
ColPitch == 50
Nudges == {<<0, 0>>, <<4, 0>>, <<9, 0>>, <<10, 0>>, <<0, 9>>, <<0, 10>>, <<4, 9>>}

\* A grid of rowCount[r] cells in row r, in row-major order, one cell nudged by (dx, dy)
gridNodes(rowCount, at, nudge) ==
    LET cell(r, c) ==
            [id |-> r * (MaxCols + 1) + c, type |-> "TEXT",
             x |-> (c - 1) * ColPitch + (IF at = <<r, c>> THEN nudge[1] ELSE 0),
             y |-> (r - 1) * RowPitch + (IF at = <<r, c>> THEN nudge[2] ELSE 0),
             width |-> 30, height |-> 20]
        row(r) == [c \in 1..rowCount[r] |-> cell(r, c)]
    IN  flatten([r \in 1..Len(rowCount) |-> row(r)])

GridInputs ==
    {gridNodes(rowCount, at, nudge) :
        rowCount \in UNION {[1..n -> 1..MaxCols] : n \in 1..MaxRows},
        at \in (1..MaxRows) \X (1..MaxCols),
        nudge \in Nudges}

InitTable ==
    /\ input \in [nodes : GridInputs]
    /\ output = NoResult

CallIsTableStructure ==
    /\ output = NoResult
    /\ output' = [op |-> "isTableStructure", value |-> isTableStructure(input.nodes)]
    /\ UNCHANGED input

SpecTable == InitTable /\ [][CallIsTableStructure]_vars

(* inferRowAction, inferToolbarAction *)

MaxFragments == 3
TextFragments == {<<"D","e","l","e","t","e">>, <<" ","a","n","d"," ">>, <<"E","d","i","t">>, <<"v","i","e","w">>, <<"i","m","p","o","r","t">>, <<"u5bfc","u5165">>, <<"E","x","p","o","r","t">>,
                  <<"A","d","d">>, <<"r","e","s","e","t">>}

RECURSIVE Concatenations(_, _)
Concatenations(fragments, n) ==
    IF n = 0 THEN {<<>>}
    ELSE LET shorter == Concatenations(fragments, n - 1)
         IN  shorter \cup {s \o f : s \in shorter, f \in fragments}

Texts == Concatenations(TextFragments, MaxFragments)
ButtonNames == {NoName, <<"d","e","l","e","t","e","-","b","t","n">>, <<"b","t","n">>}

InitInfer ==
    /\ input \in [text : Texts, nodeName : ButtonNames]
    /\ output = NoResult

CallInferRowAction ==
    /\ output = NoResult
    /\ output' = [op |-> "inferRowAction", value |-> inferRowAction(input.text, input.nodeName)]
    /\ UNCHANGED input
CallInferToolbarAction ==
    /\ output = NoResult
    /\ output' = [op |-> "inferToolbarAction", value |-> inferToolbarAction(input.text, input.nodeName)]
    /\ UNCHANGED input

SpecInfer == InitInfer /\ [][CallInferRowAction \/ CallInferToolbarAction]_vars

(* resolveNodeRole *)

MaxNameParts == 2
NameFragments == {<<"s","e","a","r","c","h">>, <<"T","a","b","l","e">>, <<"c","o","n","t","a","i","n","e","r">>, <<"W","r","a","p","p","e","r">>, <<"t","o","o","l","b","a","r">>, <<"a","c","t","i","o","n">>,
                  <<"f","o","o","t","e","r">>, <<"t","i","t","l","e">>, <<"b","o","d","y">>, <<"-">>, <<"x">>, <<"u5217","u8868">>}
RoleNames == Concatenations(NameFragments, MaxNameParts)

InitRole ==
    /\ input \in [node : [name : RoleNames]]
    /\ output = NoResult

CallResolveNodeRole ==
    /\ output = NoResult
    /\ output' = [op |-> "resolveNodeRole", value |-> resolveNodeRole(input.node)]
    /\ UNCHANGED input

SpecRole == InitRole /\ [][CallResolveNodeRole]_vars

-----------------------------------------------------------------------------
(* Design trees for processTablePage. A tree is written as nested records and *)
(* numbered in document order, so that a node's id is its index.              *)

box(type, name, x, y, width, height) ==
    [id |-> 0, parent |-> 0, children |-> <<>>, type |-> type, name |-> name,
     x |-> x, y |-> y, width |-> width, height |-> height, visible |-> TRUE,
     characters |-> <<>>, fontSize |-> 0, hasFills |-> FALSE, hasStrokes |-> FALSE,
     overrides |-> <<>>, componentProperties |-> <<>>]

leaf(node) == [node |-> node, kids |-> <<>>]
frame(name, x, y, width, height, kids) ==
    [node |-> box("FRAME", name, x, y, width, height), kids |-> kids]
instance(name, x, y, width, height, kids) ==
    [node |-> box("INSTANCE", name, x, y, width, height), kids |-> kids]
textNode(name, characters, fontSize, x, y, width, height) ==
    leaf([box("TEXT", name, x, y, width, height)
             EXCEPT !.characters = characters, !.fontSize = fontSize])
rectangle(name, x, y, width, height) ==
    leaf([box("RECTANGLE", name, x, y, width, height) EXCEPT !.hasStrokes = TRUE])

RECURSIVE sizeOf(_)
sizeOf(tree) ==
    LET RECURSIVE total(_)
        total(k) == IF k = 0 THEN 0 ELSE sizeOf(tree.kids[k]) + total(k - 1)
    IN  1 + total(Len(tree.kids))

RECURSIVE numbered(_, _, _)
numbered(tree, id, parent) ==
    LET RECURSIVE before(_)
        before(k) == IF k = 1 THEN 0 ELSE sizeOf(tree.kids[k - 1]) + before(k - 1)
        kidIds == [k \in 1..Len(tree.kids) |-> id + 1 + before(k)]
    IN  <<[tree.node EXCEPT !.id = id, !.parent = parent, !.children = kidIds]>>
            \o flatten([k \in 1..Len(tree.kids) |-> numbered(tree.kids[k], kidIds[k], id)])

idNamed(nodes, name) == SeqMin({i \in 1..Len(nodes) : nodes[i].name = name})

\* The tree with from's children extended by the node named to (a cycle when to
\* is from or an ancestor of it)
withEdge(nodes, from, to) ==
    [nodes EXCEPT ![idNamed(nodes, from)].children = Append(@, idNamed(nodes, to))]

MaxTitles == 2

\* The header titles of n columns: all different, all the same, or the last one
\* the title of an action column
plainTitle(i) == <<"F","i","e","l","d"," ">> \o <<UpperCase[i]>>
titlesOf(pattern, n) ==
    [i \in 1..n |-> IF pattern = "same" THEN plainTitle(1)
                    ELSE IF pattern = "actions" /\ i = n THEN <<"A","c","t","i","o","n","s">>
                    ELSE plainTitle(i)]
TitleLists == {titlesOf(pattern, n) : pattern \in {"different", "same", "actions"},
                                      n \in 1..MaxTitles}

ColumnPitch == 100
TableTop == 200

titleTexts(titles, y) ==
    [i \in 1..Len(titles) |-> textNode(<<"t","e","x","t">>, titles[i], 14, (i - 1) * ColumnPitch, y, 60, 20)]

Layouts == {"header", "columns", "grid", "firstChild", "scattered"}

\* The children of the table for a layout of the titles
tableContent(layout, titles) ==
    IF layout = "header"
    THEN <<frame(<<"u8868","u5934">>, 0, TableTop, 1000, 40, titleTexts(titles, TableTop + 10))>>
    ELSE IF layout = "columns"
    THEN <<frame(<<"c","o","l","u","m","n","s">>, 0, TableTop, 1000, 40,
               [i \in 1..Len(titles) |->
                   frame(<<"c","o","l","u","m","n">>, (i - 1) * ColumnPitch, TableTop, ColumnPitch, 40,
                         <<textNode(<<"t","i","t","l","e">>, titles[i], 14, (i - 1) * ColumnPitch + 10,
                                TableTop + 10, 60, 20)>>)])>>
    ELSE IF layout = "grid"
    THEN titleTexts(titles, TableTop)
             \o titleTexts([i \in 1..Len(titles) |-> <<"a","1">>], TableTop + 40)
    ELSE IF layout = "firstChild"
    THEN <<frame(<<"r","o","w">>, 0, TableTop, 1000, 40, titleTexts(titles, TableTop + 10))>>
    ELSE <<rectangle(<<"b","g">>, 0, TableTop, 1000, 400),
           frame(<<"r","o","w">>, 0, TableTop + 20, 1000, 40, titleTexts(titles, TableTop + 30))>>

Operations == {"none", "narrow", "wide"}

\* The operation column of a data row
operationContent(operations) ==
    IF operations = "none" THEN <<>>
    ELSE <<frame(<<"a","c","t","i","o","n","s">>, 1000, TableTop + 40,
                 IF operations = "wide" THEN 500 ELSE 120, 30,
                 <<textNode(<<"a","c","t","i","o","n">>, <<"E","d","i","t">>, 14, 1000, TableTop + 45, 40, 20),
                   textNode(<<"a","c","t","i","o","n">>, <<"D","e","l","e","t","e">>, 14, 1050, TableTop + 45, 40, 20),
                   textNode(<<"a","c","t","i","o","n">>, <<"E","d","i","t">>, 14, 1100, TableTop + 45, 40, 20)>>)>>

TableKinds == {"table", "rescue", "main"}

\* The table node, or a title-like grid node with the table as its sibling
tableNodes(kind, content) ==
    IF kind = "rescue"
    THEN <<frame(<<"t","a","b","l","e","-","t","i","t","l","e">>, 0, TableTop - 30, 1200, 20,
                 <<textNode(<<"t","e","x","t">>, <<"U","s","e","r","s">>, 12, 0, TableTop - 30, 60, 20)>>),
           frame(<<"g","r","i","d">>, 0, TableTop, 1200, 400, content)>>
    ELSE <<frame(IF kind = "table" THEN <<"t","a","b","l","e">> ELSE <<"m","a","i","n">>, 0, TableTop, 1200, 400,
                 content)>>

Surroundings == {"bare", "full"}

\* Header, search area and toolbar above the table
surroundingNodes(surroundings) ==
    IF surroundings = "bare" THEN <<>>
    ELSE <<frame(<<"h","e","a","d","e","r">>, 0, 0, 1200, 60,
                 <<textNode(<<"t","i","t","l","e">>, <<"u7528","u6237","u5217","u8868">>, 24, 20, 20, 100, 24)>>),
           frame(<<"s","e","a","r","c","h">>, 0, 70, 1200, 50,
                 <<textNode(<<"l","a","b","e","l">>, <<"N","a","m","e">>, 14, 0, 85, 40, 20),
                   rectangle(<<"i","n","p","u","t">>, 50, 80, 100, 30),
                   frame(<<"b","t","n">>, 200, 80, 60, 30,
                         <<textNode(<<"t","e","x","t">>, <<"S","e","a","r","c","h">>, 14, 210, 85, 40, 20)>>)>>),
           frame(<<"t","o","o","l","b","a","r">>, 0, 130, 1200, 40,
                 <<instance(<<"b","u","t","t","o","n">>, 0, 135, 60, 30,
                            <<textNode(<<"t","e","x","t">>, <<"A","d","d">>, 14, 10, 140, 40, 20)>>),
                   instance(<<"b","u","t","t","o","n">>, 70, 135, 60, 30,
                            <<textNode(<<"t","e","x","t">>, <<"u5bfc","u5165">>, 14, 80, 140, 40, 20)>>)>>)>>

pageNodes(surroundings, kind, layout, titles, operations) ==
    numbered(frame(<<"p","a","g","e">>, 0, 0, 1200, 800,
                   surroundingNodes(surroundings)
                       \o tableNodes(kind, tableContent(layout, titles)
                                               \o operationContent(operations))),
             1, 0)

\* Trees without a page around a table: a root that is no container, an empty
\* page, and a toolbar whose buttons have no button names
OtherTrees ==
    {numbered(textNode(<<"t","e","x","t">>, <<"U","s","e","r","s">>, 14, 0, 0, 60, 20), 1, 0),
     numbered(rectangle(<<"b","g">>, 0, 0, 100, 40), 1, 0),
     numbered(frame(<<"p","a","g","e">>, 0, 0, 1200, 800, <<>>), 1, 0),
     numbered(frame(<<"p","a","g","e">>, 0, 0, 1200, 800,
                    <<frame(<<"t","o","o","l","b","a","r">>, 0, 130, 1200, 40,
                            <<frame(<<"i","t","e","m">>, 0, 135, 60, 30,
                                    <<textNode(<<"t","e","x","t">>, <<"A","d","d">>, 14, 10, 140, 40, 20)>>),
                              frame(<<"i","t","e","m">>, 70, 135, 60, 30,
                                    <<textNode(<<"t","e","x","t">>, <<"E","x","p","o","r","t">>, 14, 80, 140, 40, 20)>>)>>)>>),
              1, 0)}

Trees ==
    {pageNodes(surroundings, kind, layout, titles, operations) :
        surroundings \in Surroundings, kind \in TableKinds, layout \in Layouts,
        titles \in TitleLists, operations \in Operations}
        \cup OtherTrees

\* Malformed graphs: a container among its own descendants
CyclicGraphs ==
    {withEdge(pageNodes("bare", "table", "header", titlesOf("different", 1), "none"),
              <<"u8868","u5934">>, <<"u8868","u5934">>),
     withEdge(pageNodes("bare", "table", "scattered", titlesOf("same", 2), "none"),
              <<"r","o","w">>, <<"t","a","b","l","e">>),
     withEdge(pageNodes("bare", "table", "firstChild", titlesOf("same", 2), "none"),
              <<"r","o","w">>, <<"t","a","b","l","e">>),
     withEdge(pageNodes("full", "main", "grid", titlesOf("different", 1), "none"),
              <<"t","o","o","l","b","a","r">>, <<"t","o","o","l","b","a","r">>),
     withEdge(pageNodes("full", "table", "grid", titlesOf("different", 1), "none"),
              <<"s","e","a","r","c","h">>, <<"p","a","g","e">>),
     withEdge(numbered(frame(<<"p","a","g","e">>, 0, 0, 1200, 800,
                             <<frame(<<"t","o","o","l","b","a","r">>, 0, 130, 1200, 40,
                                     <<frame(<<"i","t","e","m">>, 0, 135, 60, 30, <<>>)>>)>>), 1, 0),
              <<"i","t","e","m">>, <<"t","o","o","l","b","a","r">>)}

InitPage ==
    /\ input \in [nodes : Trees \cup CyclicGraphs, root : {1}]
    /\ output = NoResult

\* A call that sorts the children of every container in place, in the tree itself
CallProcessTablePageSortingInPlace ==
    /\ output = NoResult
    /\ LET result == processTablePage(Node(input.root))
       IN  output' = [op |-> "processTablePage", threw |-> result.threw,
                      error |-> result.error, value |-> result.value]
    /\ input' = [input EXCEPT !.nodes =
                     [id \in 1..Len(input.nodes) |->
                         [input.nodes[id] EXCEPT !.children =
                             idsOf(sortNodesByPosition(childrenOf(input.nodes[id])))]]]

\* A call of processTablePage on the root: it returns a model or throws
CallProcessTablePage ==
    /\ output = NoResult
    /\ LET result == processTablePage(Node(input.root))
       IN  output' = [op |-> "processTablePage", threw |-> result.threw,
                      error |-> result.error, value |-> result.value]
    /\ UNCHANGED input

SpecPage == InitPage /\ [][CallProcessTablePage]_vars

-----------------------------------------------------------------------------
(* Column discovery on a table node *)

tableTrees ==
    {numbered(frame(<<"t","a","b","l","e">>, 0, TableTop, 1200, 400,
                    tableContent(layout, titles) \o operationContent(operations)), 1, 0) :
        layout \in Layouts, titles \in TitleLists, operations \in Operations}

InitColumns ==
    /\ input \in [nodes : tableTrees, root : {1}]
    /\ output = NoResult

\* A call of extractTableColumnsRecursive on the root at depth 0
CallExtractTableColumnsRecursive ==
    /\ output = NoResult
    /\ LET result == extractTableColumnsRecursive(Node(input.root), 0, {})
       IN  output' = [op |-> "extractTableColumnsRecursive", threw |-> result.threw,
                      error |-> result.error, value |-> result.value]
    /\ UNCHANGED input

SpecColumns == InitColumns /\ [][CallExtractTableColumnsRecursive]_vars
-----------------------------------------------------------------------------
(* Claims about the layout protocol and the intelligence engine *)

Max3(a, b, c) == SeqMax({a, b, c})
HorizontalGap(a, b) == Max3(0, b.x - (a.x + a.width), a.x - (b.x + b.width))
VerticalGap(a, b) == Max3(0, b.y - (a.y + a.height), a.y - (b.y + b.height))
\* twice the distance of the vertical centres
CentreDistance2(a, b) == Abs((2 * a.y + a.height) - (2 * b.y + b.height))

PairCalled == output # NoResult /\ output.op = "isLabelInputPair"
FixtureLabel == [type |-> "TEXT", x |-> 0, y |-> 0, width |-> 40, height |-> 20]
FixtureInput == [type |-> "RECTANGLE", x |-> 50, y |-> 0, width |-> 100, height |-> 30]

\* C6 as stated: isLabelInputPair is true exactly when the label is text, the
\* horizontal gap is at most 20, the vertical centres differ by at most 5 and the
\* vertical gap is at most 10; text (0,0,40,20) with shape (50,0,100,30) is accepted.
C6_PairAtMostFive ==
    PairCalled =>
        /\ output.value <=>
              /\ input.label.type = "TEXT"
              /\ HorizontalGap(input.label, input.inputNode) <= 20
              /\ CentreDistance2(input.label, input.inputNode) <= 2 * 5
              /\ VerticalGap(input.label, input.inputNode) <= 10
        /\ (input.label = FixtureLabel /\ input.inputNode = FixtureInput) => output.value

\* C6 amended: isLabelInputPair is true exactly when the label is text, the
\* horizontal gap is at most 20 (20 accepted, 21 rejected), the vertical centres
\* differ by less than 5 (5 itself rejected) and the vertical gap is at most 10;
\* text (0,0,40,20) with shape (50,0,100,30), centre difference 5, is rejected.
C6_PairBelowFive ==
    PairCalled =>
        /\ output.value <=>
              /\ input.label.type = "TEXT"
              /\ HorizontalGap(input.label, input.inputNode) <= 20
              /\ CentreDistance2(input.label, input.inputNode) < 2 * 5
              /\ VerticalGap(input.label, input.inputNode) <= 10
        /\ (input.label = FixtureLabel /\ input.inputNode = FixtureInput) => ~output.value

\* C6 witness: a pair accepted at gap 20 with centres 4.5 apart
C6_Witness ==
    /\ PairCalled
    /\ output.value
    /\ HorizontalGap(input.label, input.inputNode) = 20
    /\ CentreDistance2(input.label, input.inputNode) = 9

TableCalled == output # NoResult /\ output.op = "isTableStructure"

\* The cells at column position col of the rows are x-aligned: each within the
\* alignment threshold of their mean x
ColumnXAligned(rows, col) ==
    LET xs == [r \in 1..Len(rows) |-> rows[r][col].x]
        RECURSIVE total(_)
        total(r) == IF r = 0 THEN 0 ELSE xs[r] + total(r - 1)
    IN  \A r \in 1..Len(rows) : Abs(Len(rows) * xs[r] - total(Len(rows))) < 5 * Len(rows)

TableShaped(nodes) ==
    LET rows == groupByRows(nodes)
    IN  /\ Len(rows) >= 2
        /\ \A r \in 1..Len(rows) : Len(rows[r]) = Len(rows[1])
        /\ \A col \in 1..Len(rows[1]) : ColumnXAligned(rows, col)

\* C7 as stated: isTableStructure is true exactly when the sameRow grouping gives
\* at least 2 rows of equal length whose cells are x-aligned at every column position.
C7_TableExactly ==
    TableCalled => (output.value <=> TableShaped(input.nodes))

\* C7 amended: isTableStructure is true exactly when there are at least 3 nodes and
\* the sameRow grouping gives at least 2 rows of equal length whose cells are
\* x-aligned at every column position; false for a 2-row grid whose second row has
\* one cell fewer, true for two fully aligned 3-cell rows.
C7_TableOfThreeOrMore ==
    TableCalled =>
        /\ output.value <=> (Len(input.nodes) >= 3 /\ TableShaped(input.nodes))
        /\ input.nodes = gridNodes(<<3, 2>>, <<1, 1>>, <<0, 0>>) => ~output.value
        /\ input.nodes = gridNodes(<<3, 3>>, <<1, 1>>, <<0, 0>>) => output.value

\* C7 witness: two fully aligned 3-cell rows are recognised
C7_Witness ==
    /\ TableCalled
    /\ output.value
    /\ input.nodes = gridNodes(<<3, 3>>, <<1, 1>>, <<0, 0>>)

RowActionCalled == output # NoResult /\ output.op = "inferRowAction"
ToolbarActionCalled == output # NoResult /\ output.op = "inferToolbarAction"

\* text contains one of the keywords, whatever its case
Mentions(text, keywords) ==
    \E i \in 1..Len(keywords) : includes(toLowerCase(text), keywords[i])

\* The name argument is read only in place of an empty text
TextDecides == input.text # <<>> \/ input.nodeName = NoName

\* C8: a text with a danger keyword gives delete, also with edit or view keywords
\* in it; without a danger keyword an edit keyword gives edit, otherwise a view
\* keyword gives view, otherwise custom.
C8_RowActionPriority ==
    RowActionCalled =>
        /\ Mentions(input.text, OperationsDanger) => output.value = "delete"
        /\ TextDecides =>
              output.value =
                 IF Mentions(input.text, OperationsDanger) THEN "delete"
                 ELSE IF Mentions(input.text, OperationsEdit) THEN "edit"
                 ELSE IF Mentions(input.text, OperationsView) THEN "view"
                 ELSE "custom"

\* C8 witness: 'Delete and Edit' gives delete
C8_Witness ==
    /\ RowActionCalled
    /\ input.text = <<"D","e","l","e","t","e"," ","a","n","d"," ","E","d","i","t">>
    /\ output.value = "delete"

ImportKeywords == <<<<"i","m","p","o","r","t">>, <<"u5bfc","u5165">>>>

\* C9 as stated: a primary keyword gives add; otherwise a batch keyword gives
\* import if an import keyword (import, U+5BFC U+5165) matched and export if not;
\* otherwise a system keyword gives refresh; otherwise custom.
C9_ToolbarAction ==
    (ToolbarActionCalled /\ TextDecides) =>
        output.value =
           IF Mentions(input.text, ToolbarPrimary) THEN "add"
           ELSE IF Mentions(input.text, ToolbarBatch)
                THEN (IF Mentions(input.text, ImportKeywords) THEN "import" ELSE "export")
           ELSE IF Mentions(input.text, ToolbarSystem) THEN "refresh"
           ELSE "custom"

RoleCalled == output # NoResult /\ output.op = "resolveNodeRole"

\* The entry is skipped for the name / has a matcher keyword in the name
Skipped(entry, name) ==
    \E i \in 1..Len(entry.excludes) : includes(toLowerCase(name), entry.excludes[i])
Matches(entry, name) ==
    \E i \in 1..Len(entry.matchers) : includes(toLowerCase(name), toLowerCase(entry.matchers[i]))
Hits(name) ==
    {i \in 1..Len(SemanticDictionary) :
        ~Skipped(SemanticDictionary[i], name) /\ Matches(SemanticDictionary[i], name)}
RegistrationOrder ==
    <<"search", "grid", "toolbar", "operations", "pagination", "header", "body">>

\* C10: resolveNodeRole returns the role of the first entry, in the order search,
\* grid, toolbar, operations, pagination, header, body, that is not skipped for an
\* exclude keyword and has a matcher keyword in the lower-cased name, with
\* confidence 0.8, and {null, 0} if there is none; so the confidence is 0 or 0.8,
\* the role is null exactly at confidence 0, and a name containing 'container' or
\* 'wrapper' never resolves to DataGrid.
C10_FirstRegisteredRole ==
    /\ [i \in 1..Len(SemanticDictionary) |-> SemanticDictionary[i].key] = RegistrationOrder
    /\ RoleCalled =>
        LET name == input.node.name
        IN  /\ output.value =
                  IF Hits(name) = {} THEN [role |-> "null", confidence |-> 0]
                  ELSE [role |-> SemanticDictionary[SeqMin(Hits(name))].role, confidence |-> 8]
            /\ output.value.confidence \in {0, 8}
            /\ output.value.role = "null" <=> output.value.confidence = 0
            /\ (includes(toLowerCase(name), <<"c","o","n","t","a","i","n","e","r">>) \/ includes(toLowerCase(name), <<"w","r","a","p","p","e","r">>))
                  => output.value.role # "DataGrid"

\* C10 witness: a name with a grid keyword and 'container' resolves to the body role
C10_Witness ==
    /\ RoleCalled
    /\ includes(toLowerCase(input.node.name), <<"t","a","b","l","e">>)
    /\ includes(toLowerCase(input.node.name), <<"c","o","n","t","a","i","n","e","r">>)
    /\ output.value = [role |-> "BodyArea", confidence |-> 8]


-----------------------------------------------------------------------------
(* Claims about processTablePage and column discovery *)

childIds(ids) == UNION {{input.nodes[id].children[k] : k \in 1..Len(input.nodes[id].children)} : id \in ids}

RECURSIVE reachableFrom(_)
reachableFrom(ids) ==
    IF childIds(ids) \subseteq ids THEN ids ELSE reachableFrom(ids \cup childIds(ids))

\* No node is among its own descendants
Acyclic == \A id \in 1..Len(input.nodes) : id \notin reachableFrom(childIds({id}))

Returned == output.op = "processTablePage" /\ ~output.threw

\* C1: on an acyclic tree processTablePage returns without throwing, and the model
\* it returns has body.table with a list of columns, which may be empty.
C1_ReturnsModelWithColumns ==
    (output.op = "processTablePage" /\ Acyclic) =>
        /\ ~output.threw
        /\ "table" \in DOMAIN output.value.body
        /\ "columns" \in DOMAIN output.value.body.table
        /\ DOMAIN output.value.body.table.columns
               = 1..Len(output.value.body.table.columns)

\* C1: a call on an acyclic tree with text nodes returned a model whose list of
\* columns is empty.
C1_Witness ==
    /\ Returned
    /\ Acyclic
    /\ \E id \in 1..Len(input.nodes) : input.nodes[id].type = "TEXT"
    /\ output.value.body.table.columns = <<>>

\* C3: a returned model whose actionColumn is present with at least one button has
\* no column with dataIndex 'actions'.
C3_NoActionsColumnBesideActionColumn ==
    (/\ Returned
     /\ output.value.body.table.actionColumn # Undefined
     /\ Len(output.value.body.table.actionColumn.buttons) >= 1) =>
        \A i \in 1..Len(output.value.body.table.columns) :
            output.value.body.table.columns[i].dataIndex # <<"a","c","t","i","o","n","s">>

\* C3: the header of the grid has a title 'Actions', whose key is 'actions', the
\* rows have operation buttons, and the model returned has an actionColumn.
C3_Witness ==
    /\ Returned
    /\ \E id \in 1..Len(input.nodes) :
           /\ input.nodes[id].type = "TEXT"
           /\ generateFieldKey(input.nodes[id].characters) = <<"a","c","t","i","o","n","s">>
           /\ input.nodes[id].parent # 0
           /\ isHeaderComponent(input.nodes[input.nodes[id].parent].name)
    /\ output.value.body.table.actionColumn # Undefined
    /\ Len(output.value.body.table.actionColumn.buttons) >= 1
    /\ output.value.body.table.columns # <<>>

\* C4: the list extractTableColumnsRecursive returns has no two columns of equal
\* title, whichever strategy found them.
C4_NoTwoColumnsOfEqualTitle ==
    (output.op = "extractTableColumnsRecursive" /\ ~output.threw) =>
        \A i, j \in 1..Len(output.value) :
            i # j => output.value[i].title # output.value[j].title

\* C5: processTablePage returns a model on every finite node graph, also on one
\* in which a container is among its own descendants.
C5_ReturnsOnEveryGraph ==
    output.op = "processTablePage" => ~output.threw

-----------------------------------------------------------------------------
(* Unrelated texts under one root *)

MaxTexts == 3
ScatterRoots == {<<"p","a","g","e">>, <<"F","r","a","m","e"," ","1">>, <<"h","e","a","d","e","r">>, <<"c","o","l","u","m","n","s">>, <<"s","o","m","e","t","h","i","n","g">>}
ScatterXSteps == {4, 5, 70}
ScatterYSteps == {9, 10, 11, 40}

\* n texts, each xStep to the right of and yStep below the one before; with tall,
\* the first text is as high as puts its centre on the centre of the second
scatterTexts(n, xStep, yStep, tall, alternate) ==
    [i \in 1..n |->
        textNode(<<"T","e","x","t">>, IF alternate /\ i % 2 = 0 THEN <<"E","d","i","t">> ELSE <<"U","s","e","r","s">>, 16,
                 (i - 1) * xStep, (i - 1) * yStep, 60,
                 IF tall /\ i = 1 THEN 20 + 2 * yStep ELSE 20)]

ScatterTrees ==
    {numbered(frame(root, 0, 0, 1200, 800,
                    scatterTexts(n, xStep, yStep, tall, alternate)), 1, 0) :
        root \in ScatterRoots, n \in 1..MaxTexts, xStep \in ScatterXSteps,
        yStep \in ScatterYSteps, tall \in BOOLEAN, alternate \in BOOLEAN}

InitScatter ==
    /\ input \in [nodes : ScatterTrees, root : {1}]
    /\ output = NoResult

SpecScatter == InitScatter /\ [][CallProcessTablePage]_vars

\* The root is a container and every other node is a text under it that resolves to
\* no role; no two texts are in the same row or the same column of the layout protocol
UnrelatedTexts ==
    /\ isContainer(input.nodes[1])
    /\ \A id \in 2..Len(input.nodes) :
           /\ input.nodes[id].type = "TEXT"
           /\ input.nodes[id].parent = 1
           /\ resolveNodeRole(input.nodes[id]).role = NoRole.role
    /\ \A i, j \in 2..Len(input.nodes) :
           i # j => /\ ~isSameRow(input.nodes[i], input.nodes[j])
                    /\ ~isSameColumn(input.nodes[i], input.nodes[j])

EmptyModel ==
    /\ output.value.body.search.fields = <<>>
    /\ output.value.body.table.columns = <<>>
    /\ output.value.body.table.actionColumn = Undefined
    /\ output.value.header = Undefined

\* The root's name resolves to no role and holds no header or columns keyword
PlainRoot ==
    /\ resolveNodeRole(input.nodes[1]).role = NoRole.role
    /\ ~isHeaderComponent(input.nodes[1].name)
    /\ ~testAnyIgnoreCase(input.nodes[1].name, ColumnsNames)

\* The texts are of one height and any two are more than 10 apart in y
FarApart ==
    \A i, j \in 2..Len(input.nodes) :
        i # j => /\ input.nodes[i].height = input.nodes[j].height
                 /\ Abs(input.nodes[i].y - input.nodes[j].y) > 10

-----------------------------------------------------------------------------
(* Naming protocol: business types and compound names *)

RowKeywords == <<<<"r","o","w">>, <<"t","r">>, <<"r","e","c","o","r","d">>, <<"u884c">>, <<"u8bb0","u5f55">>>>
CellKeywords == <<<<"c","e","l","l">>, <<"t","d">>, <<"c","o","l">>, <<"c","o","l","u","m","n">>, <<"u5217">>, <<"u5355","u5143","u683c">>>>
ContainerKeywords == <<<<"c","o","n","t","a","i","n","e","r">>, <<"w","r","a","p","p","e","r">>, <<"b","o","x">>, <<"a","r","e","a">>, <<"u5bb9","u5668">>, <<"u533a","u57df">>>>
ContentKeywords == <<<<"c","o","n","t","e","n","t">>, <<"b","o","d","y">>, <<"m","a","i","n">>, <<"u5185","u5bb9">>, <<"u4e3b","u4f53">>>>

isSearchArea(name) == matchesPattern(name, SearchMatchers)
isTableSearchArea(name) == isSearchArea(name)
isTableArea(name) == matchesPattern(name, GridMatchers)
isTableRow(name) == matchesPattern(name, RowKeywords)
isTableColumn(name) == matchesPattern(name, CellKeywords)
isContainerComponent(name) == matchesPattern(name, ContainerKeywords)
isContentArea(name) == matchesPattern(name, ContentKeywords)
isTitleComponent(name) == matchesPattern(name, HeaderMatchers)
isActionComponent(name) == matchesPattern(name, OperationsMatchers)
isToolbarComponent(name) == matchesPattern(name, ToolbarMatchers)
isPaginationComponent(name) == matchesPattern(name, PaginationMatchers)
isOperationButton(name) ==
    matchesPattern(name, OperationsEdit \o OperationsDanger \o OperationsView)

getBusinessType(name) ==
    IF isTableSearchArea(name) THEN <<"t","a","b","l","e","-","s","e","a","r","c","h">>
    ELSE IF isSearchArea(name) THEN <<"s","e","a","r","c","h">>
    ELSE IF isTableArea(name) THEN <<"t","a","b","l","e">>
    ELSE IF isTableRow(name) THEN <<"t","a","b","l","e","-","r","o","w">>
    ELSE IF isTableColumn(name) THEN <<"t","a","b","l","e","-","c","o","l","u","m","n">>
    ELSE IF namingIsInputComponent(name) THEN <<"i","n","p","u","t">>
    ELSE IF isSelectComponent(name) THEN <<"s","e","l","e","c","t">>
    ELSE IF isDateComponent(name) THEN <<"d","a","t","e">>
    ELSE IF isButtonComponent(name) THEN <<"b","u","t","t","o","n">>
    ELSE IF isHeaderComponent(name) THEN <<"h","e","a","d","e","r">>
    ELSE IF isTitleComponent(name) THEN <<"t","i","t","l","e">>
    ELSE IF isActionComponent(name) THEN <<"a","c","t","i","o","n">>
    ELSE IF isToolbarComponent(name) THEN <<"t","o","o","l","b","a","r">>
    ELSE IF isPaginationComponent(name) THEN <<"p","a","g","i","n","a","t","i","o","n">>
    ELSE IF isOperationButton(name) THEN <<"o","p","e","r","a","t","i","o","n">>
    ELSE IF isContentArea(name) THEN <<"c","o","n","t","e","n","t">>
    ELSE IF isContainerComponent(name) THEN <<"c","o","n","t","a","i","n","e","r">>
    ELSE <<"u","n","k","n","o","w","n">>

\* String.prototype.split on a separator of one character: the pieces between the
\* separators, empty pieces included
RECURSIVE split(_, _)
split(s, separator) ==
    IF \A i \in 1..Len(s) : s[i] # separator THEN <<s>>
    ELSE With(SeqMin({i \in 1..Len(s) : s[i] = separator}), LAMBDA k :
             <<SubSeq(s, 1, k - 1)>> \o split(SubSeq(s, k + 1, Len(s)), separator))

\* One round of separators.forEach: every part split on the separator
splitParts(parts, separator) ==
    flatten([i \in 1..Len(parts) |-> split(parts[i], separator)])

\* Array.prototype.join
RECURSIVE join(_, _)
join(parts, separator) ==
    IF parts = <<>> THEN <<>>
    ELSE IF Len(parts) = 1 THEN parts[1]
    ELSE parts[1] \o separator \o join(Tail(parts), separator)

\* The parts of a name: split on '-', then '_', then ' ', blank parts dropped
nameParts(name) ==
    filter(splitParts(splitParts(splitParts(<<name>>, "-"), "_"), " "),
           LAMBDA part : Len(trim(part)) > 0)

\* The result of the for loop of parseCompoundName over the parts from index i on:
\* typeIndex (counted from 1, 0 for the code's -1) and detectedType
RECURSIVE detectType(_, _)
detectType(parts, i) ==
    IF i > Len(parts) THEN [typeIndex |-> 0, detectedType |-> <<>>]
    ELSE With(getBusinessType(parts[i]), LAMBDA businessType :
             IF businessType # <<"u","n","k","n","o","w","n">>
             THEN [typeIndex |-> i, detectedType |-> businessType]
             ELSE detectType(parts, i + 1))

EmptyName == [prefix |-> <<>>, type |-> <<>>, suffix |-> <<>>, parts |-> <<>>]

parsedName(parts, detected) ==
    [prefix |-> IF detected.typeIndex > 1
                THEN join(SubSeq(parts, 1, detected.typeIndex - 1), <<"-">>) ELSE <<>>,
     type |-> detected.detectedType,
     suffix |-> IF detected.typeIndex >= 1 /\ detected.typeIndex < Len(parts)
                THEN join(SubSeq(parts, detected.typeIndex + 1, Len(parts)), <<"-">>)
                ELSE <<>>,
     parts |-> parts]

parseCompoundName(name) ==
    IF name = <<>> THEN EmptyName
    ELSE With(nameParts(name), LAMBDA parts :
             IF Len(parts) = 0 THEN EmptyName
             ELSE parsedName(parts, detectType(parts, 1)))

validated(parsed) ==
    [isValid |-> parsed.type # <<"u","n","k","n","o","w","n">>,
     issues |-> IF parsed.type = <<"u","n","k","n","o","w","n">> THEN <<<<"u672a","u8bc6","u522b","u7684","u7ec4","u4ef6","u7c7b","u578b">>>> ELSE <<>>,
     suggestions |->
         (IF parsed.type = <<"u","n","k","n","o","w","n">>
          THEN <<<<"u5728","u540d","u79f0","u4e2d","u5305","u542b","u7ec4","u4ef6","u7c7b","u578b","uff0c","u5982"," ","i","n","p","u","t","u3001","b","u","t","t","o","n","u3001","t","a","b","l","e">>>> ELSE <<>>)
         \o (IF Len(parsed.parts) = 1
             THEN <<<<"u8003","u8651","u4f7f","u7528","u590d","u5408","u540d","u79f0","u63d0","u9ad8","u53ef","u8bfb","u6027","uff0c","u5982"," ","u","s","e","r","-","s","e","a","r","c","h","-","i","n","p","u","t">>>> ELSE <<>>)]

validateName(name) ==
    IF name = <<>> \/ Len(trim(name)) = 0
    THEN [isValid |-> FALSE, issues |-> <<<<"u540d","u79f0","u4e3a","u7a7a">>>>,
          suggestions |-> <<<<"u4f7f","u7528","u63cf","u8ff0","u6027","u540d","u79f0","uff0c","u5982"," ","s","e","a","r","c","h","-","i","n","p","u","t">>>>]
    ELSE validated(parseCompoundName(name))

-----------------------------------------------------------------------------
(* Calls of parseCompoundName and validateName *)

MaxWords == 3
NameWords == {<<>>, <<"s","e","a","r","c","h">>, <<"i","n","p","u","t">>, <<"f","i","e","l","d">>, <<"n","o","d","e","1">>}
NameSeparators == {"-", "_", " "}

RECURSIVE CompoundNames(_)
CompoundNames(n) ==
    IF n = 1 THEN NameWords
    ELSE CompoundNames(n - 1)
             \cup {name \o <<separator>> \o word :
                      name \in CompoundNames(n - 1), separator \in NameSeparators,
                      word \in NameWords}

InitName ==
    /\ input \in [name : CompoundNames(MaxWords)]
    /\ output = NoResult

CallParseCompoundName ==
    /\ output = NoResult
    /\ output' = [op |-> "parseCompoundName", value |-> parseCompoundName(input.name)]
    /\ UNCHANGED input

CallValidateName ==
    /\ output = NoResult
    /\ output' = [op |-> "validateName", value |-> validateName(input.name)]
    /\ UNCHANGED input

SpecName == InitName /\ [][CallParseCompoundName \/ CallValidateName]_vars

\* C12: parseCompoundName('search-input-field') gives prefix 'search', type 'input',
\* suffix 'field' and the parts 'search', 'input', 'field'.
C12_ParsesSearchInputField ==
    (output.op = "parseCompoundName" /\ input.name = <<"s","e","a","r","c","h","-","i","n","p","u","t","-","f","i","e","l","d">>) =>
        output.value = [prefix |-> <<"s","e","a","r","c","h">>, type |-> <<"i","n","p","u","t">>, suffix |-> <<"f","i","e","l","d">>,
                        parts |-> <<<<"s","e","a","r","c","h">>, <<"i","n","p","u","t">>, <<"f","i","e","l","d">>>>]

\* The parts of the name that getBusinessType classifies
Classifiable(parts) == {i \in 1..Len(parts) : getBusinessType(parts[i]) # <<"u","n","k","n","o","w","n">>}

\* C13: the type is the business type of the first part that has one, the prefix
\* the parts before it and the suffix the parts after it; an empty name gives empty
\* fields; a name that is not empty and has no such part gives the type 'unknown'
\* with an empty prefix and suffix.
C13_TypeOfFirstClassifiablePart ==
    output.op = "parseCompoundName" =>
        LET parts == nameParts(input.name)
        IN  IF input.name = <<>> THEN output.value = EmptyName
            ELSE IF Classifiable(parts) = {}
            THEN /\ output.value.type = <<"u","n","k","n","o","w","n">>
                 /\ output.value.prefix = <<>>
                 /\ output.value.suffix = <<>>
            ELSE LET k == SeqMin(Classifiable(parts))
                 IN  /\ output.value.type = getBusinessType(parts[k])
                     /\ output.value.prefix = join(SubSeq(parts, 1, k - 1), <<"-">>)
                     /\ output.value.suffix = join(SubSeq(parts, k + 1, Len(parts)), <<"-">>)
                     /\ output.value.parts = parts

\* C14: an empty or blank name, and a name none of whose parts is classified, is not
\* valid and has an issue; a name is valid without issues only if a part of it is
\* classified.
C14_UnrecognizedNameIsInvalid ==
    output.op = "validateName" =>
        /\ (Len(trim(input.name)) = 0 \/ Classifiable(nameParts(input.name)) = {}) =>
               (~output.value.isValid /\ output.value.issues # <<>>)
        /\ (output.value.isValid /\ output.value.issues = <<>>) =>
               Classifiable(nameParts(input.name)) # {}

\* The tree holds an ActionGroup node from which a button is extracted
ToolbarWithButtons ==
    With(toolbarStage(Node(input.root)), LAMBDA toolbar :
        ~toolbar.threw /\ toolbar.value # Undefined)

\* C15: whenever the tree holds an ActionGroup node from which at least one button
\* is extracted, the returned model has body.toolbar, with or without a DataGrid
\* node in the tree.
C15_ToolbarWithOrWithoutGrid ==
    (Returned /\ ToolbarWithButtons) => output.value.body.toolbar # Undefined

-----------------------------------------------------------------------------
(* Calls of identifyButtonGroups and groupByRows on lists of boxes *)

MaxButtons == 3
ButtonSizes == {<<80, 30>>, <<100, 30>>, <<115, 30>>, <<100, 40>>}
ButtonPlaces == {<<0, 9>>, <<100, 0>>, <<0, 18>>, <<4, 40>>}

\* Lists of at most n boxes with the given places and sizes, numbered in list order
boxLists(n, places, sizes) ==
    UNION {[1..len -> places \X sizes] : len \in 0..n}

boxesOf(list) ==
    [i \in 1..Len(list) |->
        [id |-> i, type |-> "FRAME", x |-> list[i][1][1], y |-> list[i][1][2],
         width |-> list[i][2][1], height |-> list[i][2][2]]]

InitButtons ==
    /\ input \in [nodes : {boxesOf(list) :
                              list \in boxLists(MaxButtons, ButtonPlaces, ButtonSizes)}]
    /\ output = NoResult

CallIdentifyButtonGroups ==
    /\ output = NoResult
    /\ output' = [op |-> "identifyButtonGroups", value |-> identifyButtonGroups(input.nodes)]
    /\ UNCHANGED input

SpecButtons == InitButtons /\ [][CallIdentifyButtonGroups]_vars

\* Two boxes of similar size in one row or one column
Partners(a, b) ==
    /\ a.width - b.width < 20 /\ b.width - a.width < 20
    /\ a.height - b.height < 10 /\ b.height - a.height < 10
    /\ \/ (a.y - b.y < 10 /\ b.y - a.y < 10)
       \/ (a.x - b.x < 5 /\ b.x - a.x < 5)

\* The groups are pairwise disjoint lists of input nodes, of at least 2 nodes each
DisjointGroups(groups) ==
    /\ \A g \in 1..Len(groups) :
          /\ Len(groups[g]) >= 2
          /\ \A k \in 1..Len(groups[g]) :
                /\ groups[g][k].id \in 1..Len(input.nodes)
                /\ groups[g][k] = input.nodes[groups[g][k].id]
                /\ \A h \in 1..Len(groups) : \A j \in 1..Len(groups[h]) :
                      groups[g][k].id = groups[h][j].id => (g = h /\ k = j)

\* A node without a partner among the other nodes is in no group
LonersLeftOut(groups) ==
    \A i \in 1..Len(input.nodes) :
        (\A j \in 1..Len(input.nodes) : j # i => ~Partners(input.nodes[i], input.nodes[j]))
            => \A g \in 1..Len(groups) : \A k \in 1..Len(groups[g]) : groups[g][k].id # i

MaxRowNodes == 3
RowPlaces == {0, 50, 100} \X {0, 9, 18, 40}

InitRows ==
    /\ input \in [nodes : {boxesOf(list) :
                              list \in boxLists(MaxRowNodes, RowPlaces, {<<30, 20>>})}]
    /\ output = NoResult

CallGroupByRows ==
    /\ output = NoResult
    /\ output' = [op |-> "groupByRows", value |-> groupByRows(input.nodes)]
    /\ UNCHANGED input

SpecRows == InitRows /\ [][CallGroupByRows]_vars

\* The places of the rows at which the input node i stands
PlacesOf(rows, i) ==
    {place \in (1..Len(rows)) \X (1..Len(input.nodes)) :
        place[2] <= Len(rows[place[1]]) /\ rows[place[1]][place[2]] = input.nodes[i]}

\* The member of the row that comes first in the input: the node that seeded the row
SeedOf(row) ==
    CHOOSE seed \in {row[k] : k \in 1..Len(row)} :
        \A k \in 1..Len(row) : seed.id <= row[k].id

\* C17: groupByRows returns a partition of its input into rows that are not empty;
\* each row is sorted by ascending x, the rows by ascending y of their first member,
\* and every member of a row is less than 10 in y from the node that seeded the row.
C17_RowsPartitionTheInput ==
    output.op = "groupByRows" =>
        /\ \A i \in 1..Len(input.nodes) : Cardinality(PlacesOf(output.value, i)) = 1
        /\ \A r \in 1..Len(output.value) :
              /\ Len(output.value[r]) >= 1
              /\ \A k \in 1..Len(output.value[r]) :
                    /\ output.value[r][k].id \in 1..Len(input.nodes)
                    /\ output.value[r][k] = input.nodes[output.value[r][k].id]
                    /\ output.value[r][k].y - SeedOf(output.value[r]).y < 10
                    /\ SeedOf(output.value[r]).y - output.value[r][k].y < 10
              /\ \A k \in 1..(Len(output.value[r]) - 1) :
                    output.value[r][k].x <= output.value[r][k + 1].x
        /\ \A r \in 1..(Len(output.value) - 1) :
              output.value[r][1].y <= output.value[r + 1][1].y

\* Two rows that come out in another order than their seeds stand in the input, the
\* upper one seeded by a node that is not its leftmost
C17_Witness ==
    /\ output.op = "groupByRows"
    /\ Len(output.value) = 2
    /\ Len(output.value[1]) = 2
    /\ SeedOf(output.value[1]) = output.value[1][2]
    /\ SeedOf(output.value[1]).x > output.value[1][1].x
    /\ SeedOf(output.value[2]).id < SeedOf(output.value[1]).id
    /\ output.value[1][1].y < output.value[2][1].y

-----------------------------------------------------------------------------
(* Trees whose root lists its children against their position order *)

reversedChildren(nodes) ==
    [nodes EXCEPT ![1].children = [k \in 1..Len(@) |-> @[Len(@) + 1 - k]]]

UnsortedTrees ==
    {reversedChildren(tree) :
        tree \in {scattered \in ScatterTrees : Len(scattered) >= 3}
                     \cup {pageNodes("full", kind, layout, titles, "narrow") :
                              kind \in TableKinds, layout \in Layouts, titles \in TitleLists}}

InitOrder ==
    /\ input \in [nodes : UnsortedTrees, root : {1}]
    /\ output = NoResult

SpecOrder == InitOrder /\ [][CallProcessTablePage]_vars

-----------------------------------------------------------------------------
(* Calls of findComponentByRole *)

FindNames == {<<"b","o","x">>, <<"t","o","o","l","b","a","r">>}
FindRoles == {"ActionGroup", "DataGrid"}

hidden(tree, visible) == [tree EXCEPT !.node.visible = visible]

\* A root with two children that have one child each; every node has one of the names
\* and is visible or not
findTree(names, visible) ==
    numbered(hidden(frame(names[1], 0, 0, 400, 400,
                 <<hidden(frame(names[2], 0, 0, 200, 400,
                       <<hidden(frame(names[3], 0, 0, 100, 100, <<>>), visible[3])>>),
                          visible[2]),
                   hidden(frame(names[4], 200, 0, 200, 400,
                       <<hidden(frame(names[5], 200, 0, 100, 100, <<>>), visible[5])>>),
                          visible[4])>>), visible[1]),
             1, 0)

\* The trees, and roots that are no containers
FindTrees ==
    {findTree(names, visible) : names \in [1..5 -> FindNames], visible \in [1..5 -> BOOLEAN]}
        \cup {numbered(textNode(name, <<"A","d","d">>, 14, 0, 0, 60, 20), 1, 0) : name \in FindNames}
        \cup {numbered(rectangle(name, 0, 0, 60, 20), 1, 0) : name \in FindNames}

InitFind ==
    /\ input \in [nodes : FindTrees, root : {1}, role : FindRoles]
    /\ output = NoResult

CallFindComponentByRole ==
    /\ output = NoResult
    /\ output' = [op |-> "findComponentByRole",
                  value |-> findComponentByRole(Node(input.root), input.role)]
    /\ UNCHANGED input

SpecFind == InitFind /\ [][CallFindComponentByRole]_vars

\* The ids of the tree level by level, each level from left to right
RECURSIVE levelOrderFrom(_)
levelOrderFrom(level) ==
    IF level = <<>> THEN <<>>
    ELSE level \o levelOrderFrom(flatten([i \in 1..Len(level) |-> Node(level[i]).children]))

\* The places of the level order at which a node of the requested role stands
Matching(order) == {i \in 1..Len(order) : hasRole(Node(order[i]), input.role)}

\* C19 as stated: the result is the first node of the requested role in level order,
\* and null exactly when no node matches or the root is no container.
C19_FirstInLevelOrder ==
    output.op = "findComponentByRole" =>
        LET order == levelOrderFrom(<<input.root>>)
        IN  IF ~isContainer(Node(input.root)) \/ Matching(order) = {}
            THEN output.value = Undefined
            ELSE output.value = Node(order[SeqMin(Matching(order))])

\* C19: the result is the first visible node of the requested role in level order;
\* without a visible one it is the first node of that role in level order; it is null
\* exactly when no node matches or the root is no container.
C19_FirstVisibleInLevelOrder ==
    output.op = "findComponentByRole" =>
        LET order == levelOrderFrom(<<input.root>>)
            visibleMatching == {i \in Matching(order) : Node(order[i]).visible}
        IN  IF ~isContainer(Node(input.root)) \/ Matching(order) = {}
            THEN output.value = Undefined
            ELSE IF visibleMatching # {}
            THEN output.value = Node(order[SeqMin(visibleMatching)])
            ELSE output.value = Node(order[SeqMin(Matching(order))])

\* The call returned the visible second child of the root, although the hidden first
\* child has the role and stands before it in level order, and the first child's
\* visible child has the role and stands before it in depth-first order
C19_Witness ==
    /\ output.op = "findComponentByRole"
    /\ Len(input.nodes) = 5
    /\ output.value = Node(4)
    /\ hasRole(Node(2), input.role) /\ ~Node(2).visible
    /\ hasRole(Node(3), input.role) /\ Node(3).visible
    /\ ~hasRole(Node(1), input.role)

-----------------------------------------------------------------------------
(* Column discovery on tables whose first row may hold empty texts *)

MaxRowTexts == 3
RowTexts == {<<>>, <<"N","a","m","e">>}
StrategyShapes == {"grid", "firstChild"}

\* The texts of one row of a table, ColumnPitch apart
textRow(texts, y) ==
    [i \in 1..Len(texts) |->
        textNode(<<"c","e","l","l">>, texts[i], 14, (i - 1) * ColumnPitch, y, 60, 20)]

\* A table of two rows of texts: as text children of the table, or as the children
\* of two frames of the table
strategyTree(shape, first, second) ==
    numbered(frame(<<"t","a","b","l","e">>, 0, TableTop, 1200, 400,
                   IF shape = "grid"
                   THEN textRow(first, TableTop) \o textRow(second, TableTop + 40)
                   ELSE <<frame(<<"t","o","p">>, 0, TableTop, 1200, 30, textRow(first, TableTop)),
                          frame(<<"r","e","s","t">>, 0, TableTop + 40, 1200, 30,
                                textRow(second, TableTop + 40))>>),
             1, 0)

StrategyTrees ==
    {strategyTree(shape, first, second) :
        shape \in StrategyShapes,
        first \in UNION {[1..n -> RowTexts] : n \in 2..MaxRowTexts},
        second \in UNION {[1..n -> RowTexts] : n \in 2..MaxRowTexts}}

InitStrategy ==
    /\ input \in [nodes : StrategyTrees, root : {1}]
    /\ output = NoResult

SpecStrategy == InitStrategy /\ [][CallExtractTableColumnsRecursive]_vars

\* What the layout strategy and the recursion into the children give for the root
LaterStrategies ==
    With(Node(input.root), LAMBDA node :
        [layout |-> extractColumnsFromLayout(node),
         children |-> columnsOfChildren(sortNodesByPosition(visibleChildren(node)), 1, 0,
                                        {<<node.id, 0>>})])

\* C20: a strategy that gives no column never ends the search: the call on the root
\* returns an empty list only if the layout strategy and the recursion into every
\* child give no column either.
C20_EmptyOnlyIfEveryStrategyIsEmpty ==
    (output.op = "extractTableColumnsRecursive" /\ ~output.threw /\ output.value = <<>>) =>
        /\ LaterStrategies.layout = Ok(<<>>)
        /\ LaterStrategies.children = Ok(<<>>)

-----------------------------------------------------------------------------
(* Column discovery on header-named nodes *)

MaxHeaderTexts == 2
HeaderWidth == 100
HeaderNames == {<<"h","e","a","d","e","r">>, <<"t","a","b","l","e","-","h","e","a","d","e","r">>}
HeaderTextWidths == {79, 80, 81}
HeaderTitles == {<<>>, <<"N","a","m","e">>, <<"A","g","e">>}

\* The texts of a header: text i has the title and the width of cells[i]
headerTexts(cells) ==
    [i \in 1..Len(cells) |->
        textNode(<<"t","e","x","t">>, cells[i][1], 14, (i - 1) * ColumnPitch, 10, cells[i][2], 20)]

\* Headers whose children are the texts, and headers whose only child is a frame of
\* the given width around the texts
HeaderTrees ==
    LET cellLists == UNION {[1..n -> HeaderTitles \X HeaderTextWidths] :
                               n \in 0..MaxHeaderTexts}
    IN  {numbered(frame(name, 0, 0, HeaderWidth, 40, headerTexts(cells)), 1, 0) :
            name \in HeaderNames, cells \in cellLists}
        \cup {numbered(frame(name, 0, 0, HeaderWidth, 40,
                             <<frame(<<"w","r","a","p">>, 0, 0, width, 40, headerTexts(cells))>>), 1, 0) :
                 name \in HeaderNames, cells \in cellLists, width \in HeaderTextWidths}

InitHeader ==
    /\ input \in [nodes : HeaderTrees, root : {1}]
    /\ output = NoResult

SpecHeader == InitHeader /\ [][CallExtractTableColumnsRecursive]_vars

\* What the strategies after the header strategy give for the root
AfterHeaderStrategy ==
    With(Node(input.root), LAMBDA node :
        columnsByStrategy(node, 0, {<<node.id, 0>>},
                          sortNodesByPosition(visibleChildren(node)), Ok(<<>>), 2).value)

\* A call on a header-named root has returned
HeaderCallReturned ==
    /\ output.op = "extractTableColumnsRecursive"
    /\ ~output.threw
    /\ isHeaderComponent(Node(input.root).name)

\* C21 as stated: the columns of the header are the result unless there is none, or
\* exactly one whose width exceeds 80% of the header's width; a single column of at
\* most 80% is accepted.
C21_SingleColumnAtMostEightyPercent ==
    HeaderCallReturned =>
        LET headerColumns == extractTableColumnsFromHeader(Node(input.root))
        IN  IF \/ Len(headerColumns) = 0
               \/ /\ Len(headerColumns) = 1
                  /\ 10 * headerColumns[1].width > 8 * Node(input.root).width
            THEN output.value = AfterHeaderStrategy
            ELSE output.value = headerColumns

\* C21: the columns of the header are the result unless there is none, or exactly one
\* whose width is 80% of the header's width or more; a single column of less than 80%
\* is accepted.
C21_SingleColumnBelowEightyPercent ==
    HeaderCallReturned =>
        LET headerColumns == extractTableColumnsFromHeader(Node(input.root))
        IN  IF \/ Len(headerColumns) = 0
               \/ /\ Len(headerColumns) = 1
                  /\ 10 * headerColumns[1].width >= 8 * Node(input.root).width
            THEN output.value = AfterHeaderStrategy
            ELSE output.value = headerColumns

\* The header has one column of exactly 80% of its width, a frame around two texts;
\* it is not taken and the search goes on to the two texts
C21_Witness ==
    /\ HeaderCallReturned
    /\ Len(extractTableColumnsFromHeader(Node(input.root))) = 1
    /\ 10 * extractTableColumnsFromHeader(Node(input.root))[1].width
           = 8 * Node(input.root).width
    /\ Len(output.value) = 2

-----------------------------------------------------------------------------
(* The containers column discovery applies its strategies to *)

\* The ids of the containers that a call of extractTableColumnsRecursive for the node
\* at the depth, and the calls nested in it, apply the strategies to
\* The call for the node gets as far as the loop over the children: the columns
\* container and the strategies of the node itself gave no column
reachesChildren(node, depth, children, columnsNode) ==
    /\ \/ columnsNode = Undefined
       \/ extractTableColumnsRecursive(columnsNode, 0, {}).value = <<>>
    /\ isHeaderComponent(node.name) => acceptedHeaderColumns(node) = <<>>
    /\ columnComponents(node, children) = <<>>
    /\ ~structureColumns(children).returns
    /\ depth = 0 => extractColumnsFromLayout(node).value = <<>>

RECURSIVE appliedTo(_, _)
RECURSIVE appliedToChildren(_, _, _)
appliedTo(node, depth) ==
    IF depth > ColumnDepth \/ ~isContainer(node) THEN {}
    ELSE With(sortNodesByPosition(visibleChildren(node)), LAMBDA children :
             With(findFirst(children, {i \in 1..Len(children) :
                      testAnyIgnoreCase(children[i].name, ColumnsNames)}),
                  LAMBDA columnsNode :
                      {node.id}
                          \cup (IF columnsNode = Undefined THEN {}
                                ELSE appliedTo(columnsNode, 0))
                          \cup (IF reachesChildren(node, depth, children, columnsNode)
                                THEN appliedToChildren(children, 1, depth) ELSE {})))

appliedToChildren(children, i, depth) ==
    IF i > Len(children) THEN {}
    ELSE appliedTo(children[i], depth + 1)
             \cup (IF extractTableColumnsRecursive(children[i], depth + 1, {}).value = <<>>
                   THEN appliedToChildren(children, i + 1, depth) ELSE {})

MaxChain == 5
ChainNames == {<<"b","o","x">>, <<"c","o","l","u","m","n","s">>, <<"h","e","a","d","e","r">>}

\* Frames nested in each other under a table, one per name, the innermost around
\* one text
RECURSIVE chain(_, _)
chain(names, i) ==
    frame(names[i], 0, 0, 1000, 40,
          IF i = Len(names) THEN <<textNode(<<"t","e","x","t">>, <<"N","a","m","e">>, 14, 0, 10, 60, 20)>>
          ELSE <<chain(names, i + 1)>>)

ChainTrees ==
    {numbered(frame(<<"t","a","b","l","e">>, 0, 0, 1000, 40, <<chain(names, 1)>>), 1, 0) :
        names \in UNION {[1..n -> ChainNames] : n \in 1..MaxChain}}

InitChain ==
    /\ input \in [nodes : ChainTrees, root : {1}]
    /\ output = NoResult

SpecChain == InitChain /\ [][CallExtractTableColumnsRecursive]_vars

\* The number of levels the node is below the root
RECURSIVE levelOf(_)
levelOf(id) == IF id = input.root THEN 0 ELSE 1 + levelOf(Node(id).parent)

\* C22: a call on the root at depth 0 applies no strategy to a container more than 4
\* levels below the root, also on a path through an explicit 'columns' container.
C22_NoStrategyBelowLevelFour ==
    (output.op = "extractTableColumnsRecursive" /\ ~output.threw) =>
        \A id \in appliedTo(Node(input.root), 0) : levelOf(id) <= ColumnDepth

-----------------------------------------------------------------------------
(* The search for operation columns *)

MaxOperationChildren == 4
OperationWidths == {400, 401}
OperationNames == {<<"a","c","t","i","o","n","s">>, <<"u64cd","u4f5c">>, <<"b","o","x">>}
OperationChildNames == {<<"t","e","x","t">>, <<"a","c","t","i","o","n">>}

\* A row with one node of the name and width, visible or not, around so many texts
operationTree(name, width, visible, count, childName) ==
    numbered(frame(<<"r","o","w">>, 0, 0, 1200, 40,
                   <<hidden(frame(name, 0, 0, width, 30,
                                  [i \in 1..count |->
                                      textNode(childName, <<"E","d","i","t">>, 14, (i - 1) * 50, 5, 40,
                                               20)]),
                            visible)>>),
             1, 0)

OperationTrees ==
    {operationTree(name, width, visible, count, childName) :
        name \in OperationNames, width \in OperationWidths, visible \in BOOLEAN,
        count \in 0..MaxOperationChildren, childName \in OperationChildNames}

InitOperation ==
    /\ input \in [nodes : OperationTrees, root : {1}]
    /\ output = NoResult

\* A call of findOperationNodesRecursive on the children of the root
CallFindOperationNodesRecursive ==
    /\ output = NoResult
    /\ output' = [op |-> "findOperationNodesRecursive",
                  value |-> idsOf(findOperationNodesRecursive(childrenOf(Node(input.root))))]
    /\ UNCHANGED input

SpecOperation == InitOperation /\ [][CallFindOperationNodesRecursive]_vars

\* The ids in the list
Found(ids) == {ids[k] : k \in 1..Len(ids)}

\* C23: a visible child of the root that matches the operation name or role is
\* accepted, and none of its children is, unless it is wider than 400 and has more
\* than 3 children; only then its children are searched in its place.
C23_WrapperIsWideWithManyChildren ==
    output.op = "findOperationNodesRecursive" =>
        \A k \in 1..Len(Node(input.root).children) :
            LET node == Node(Node(input.root).children[k])
            IN  (node.visible /\ isExplicitActionColumn(node)) =>
                    IF node.width > 400 /\ Len(node.children) > 3
                    THEN /\ node.id \notin Found(output.value)
                         /\ \A c \in 1..Len(node.children) :
                               isExplicitActionColumn(Node(node.children[c]))
                                   => node.children[c] \in Found(output.value)
                    ELSE /\ node.id \in Found(output.value)
                         /\ \A c \in 1..Len(node.children) :
                               node.children[c] \notin Found(output.value)

-----------------------------------------------------------------------------
(* Pages whose rows have an operation column of texts *)

MaxActionTexts == 3
ActionTexts == {<<"E","d","i","t">>, <<"D","e","l","e","t","e">>, <<"u64cd","u4f5c">>, <<"N","a","m","e">>}

\* A page with a table of one header and one operation column of the texts
actionsTree(texts) ==
    numbered(frame(<<"p","a","g","e">>, 0, 0, 1200, 800,
                   <<frame(<<"t","a","b","l","e">>, 0, TableTop, 1200, 400,
                           <<frame(<<"u8868","u5934">>, 0, TableTop, 1000, 40,
                                   titleTexts(titlesOf("different", 2), TableTop + 10)),
                             frame(<<"a","c","t","i","o","n","s">>, 1000, TableTop + 40, 200, 30,
                                   [i \in 1..Len(texts) |->
                                       textNode(<<"a","c","t","i","o","n">>, texts[i], 14,
                                                1000 + (i - 1) * 50, TableTop + 45, 40,
                                                20)])>>)>>),
             1, 0)

ActionsTrees ==
    {actionsTree(texts) : texts \in UNION {[1..n -> ActionTexts] : n \in 0..MaxActionTexts}}

InitActions ==
    /\ input \in [nodes : ActionsTrees, root : {1}]
    /\ output = NoResult

SpecActions == InitActions /\ [][CallProcessTablePage]_vars

\* C24: every button of body.table.actionColumn has a type among edit, delete, view
\* and custom, a label that shouldExclude does not exclude and that has an action
\* keyword, and a key no other button of the list has; an actionColumn has at least
\* one button.
C24_ActionButtonsAreFilteredAndUnique ==
    (Returned /\ output.value.body.table.actionColumn # Undefined) =>
        LET buttons == output.value.body.table.actionColumn.buttons
        IN  /\ Len(buttons) >= 1
            /\ \A i \in 1..Len(buttons) :
                  /\ buttons[i].type \in {"edit", "delete", "view", "custom"}
                  /\ ~shouldExclude(buttons[i].label)
                  /\ hasActionKeyword(buttons[i].label)
                  /\ \A j \in 1..Len(buttons) : j # i => buttons[j].key # buttons[i].key

\* The operation column holds the same text twice and a text without an action
\* keyword, and the model has an actionColumn of one button
C24_Witness ==
    /\ Returned
    /\ output.value.body.table.actionColumn # Undefined
    /\ Len(output.value.body.table.actionColumn.buttons) = 1
    /\ \E i, j, k \in 1..Len(input.nodes) :
          /\ i # j
          /\ {input.nodes[i].name, input.nodes[j].name, input.nodes[k].name} = {<<"a","c","t","i","o","n">>}
          /\ input.nodes[i].characters = input.nodes[j].characters
          /\ hasActionKeyword(input.nodes[i].characters)
          /\ ~shouldExclude(input.nodes[i].characters)
          /\ ~hasActionKeyword(input.nodes[k].characters)

\* C25: body.table.columns of a returned model has no column with dataIndex
\* 'actions', with a DataGrid node in the tree and without one.
C25_NoActionsColumn ==
    Returned =>
        \A i \in 1..Len(output.value.body.table.columns) :
            output.value.body.table.columns[i].dataIndex # <<"a","c","t","i","o","n","s">>

-----------------------------------------------------------------------------
(* The scan for search fields *)

MaxSearchItems == 3
MaxSearchWraps == 3
SearchPitch == 80
SearchItemKinds == {"label", "toggle", "field", "box", "input", "filled"}
ItemDigits == <<"1", "2", "3", "4", "5">>

\* A label and a field side by side, as the content of the i-th item
searchPair(i) ==
    <<textNode(<<"l","a","b","e","l">>, <<"I", ItemDigits[i]>>, 14, (i - 1) * SearchPitch, 5, 30, 20),
      rectangle(<<"f","i","e","l","d">>, (i - 1) * SearchPitch + 35, 0, 30, 30)>>

\* The i-th item of a form: a label, a label with a deny-list word, a field, a plain
\* frame, a frame with an input name or a frame with a fill, each frame around a pair
searchItem(kind, i) ==
    CASE kind = "label" ->
            textNode(<<"l","a","b","e","l">>, <<"N", ItemDigits[i]>>, 14, (i - 1) * SearchPitch, 5, 65, 20)
      [] kind = "toggle" ->
            textNode(<<"l","a","b","e","l">>, <<"u5c55","u5f00">> \o <<ItemDigits[i]>>, 14, (i - 1) * SearchPitch, 5, 65,
                     20)
      [] kind = "field" -> rectangle(<<"f","i","e","l","d">>, (i - 1) * SearchPitch, 0, 65, 30)
      [] kind = "box" -> frame(<<"b","o","x">>, (i - 1) * SearchPitch, 0, 65, 30, searchPair(i))
      [] kind = "input" -> frame(<<"i","n","p","u","t">>, (i - 1) * SearchPitch, 0, 65, 30, searchPair(i))
      [] kind = "filled" ->
            [frame(<<"b","o","x">>, (i - 1) * SearchPitch, 0, 65, 30, searchPair(i))
                EXCEPT !.node.hasFills = TRUE]

\* The tree below so many frames, one in the other
RECURSIVE wrapped(_, _)
wrapped(tree, wraps) ==
    IF wraps = 0 THEN tree
    ELSE frame(<<"w","r","a","p">>, 0, 0, 400, 30, <<wrapped(tree, wraps - 1)>>)

searchTree(kinds, wraps) ==
    numbered(wrapped(frame(<<"f","o","r","m">>, 0, 0, 400, 30,
                           [i \in 1..Len(kinds) |-> searchItem(kinds[i], i)]),
                     wraps),
             1, 0)

SearchTrees ==
    {searchTree(kinds, wraps) :
        kinds \in UNION {[1..n -> SearchItemKinds] : n \in 0..MaxSearchItems},
        wraps \in 0..MaxSearchWraps}

InitSearch ==
    /\ input \in [nodes : SearchTrees, root : {1}]
    /\ output = NoResult

\* A call of extractSearchFieldsRecursive on the root at depth 0
CallExtractSearchFieldsRecursive ==
    /\ output = NoResult
    /\ output' = [op |-> "extractSearchFieldsRecursive",
                  value |-> extractSearchFieldsRecursive(Node(input.root), 0)]
    /\ UNCHANGED input

SpecSearch == InitSearch /\ [][CallExtractSearchFieldsRecursive]_vars

\* The container is the root or at most 3 levels below it on a path of visible
\* containers that are not input-like
RECURSIVE scanned(_)
scanned(id) ==
    IF id = input.root THEN isContainer(Node(id))
    ELSE /\ Node(id).visible /\ isContainer(Node(id)) /\ ~isInputComponent(Node(id))
         /\ levelOf(id) <= 3
         /\ scanned(Node(id).parent)

orderedChildren(id) == sortNodesByPosition(visibleChildren(Node(id)))
pairedAt(id, i) == isLabelInputPair(orderedChildren(id)[i], orderedChildren(id)[i + 1])
denied(label) ==
    \E word \in {<<"u6536","u8d77">>, <<"u5c55","u5f00">>, <<"u9ad8","u7ea7","u641c","u7d22">>, <<"u66f4","u591a">>, <<"E","x","p","a","n","d">>, <<"C","o","l","l","a","p","s","e">>} :
        includes(label, word)
FieldLabelsFound == {output.value[k].label : k \in 1..Len(output.value)}

\* C26: every field comes from a label next to its right neighbour in a scanned
\* container and its label has no deny-list word; a node that was the input of a pair
\* is not the label of the next; the node after a denied first pair gives no field.
\* (Every label of the trees is written once, so a label names its node.)
C26_FieldsFromAdjacentPairs ==
    output.op = "extractSearchFieldsRecursive" =>
        /\ Cardinality(FieldLabelsFound) = Len(output.value)
        /\ \A k \in 1..Len(output.value) :
              /\ ~denied(output.value[k].label)
              /\ \E id \in 1..Len(input.nodes) :
                    /\ scanned(id)
                    /\ \E i \in 1..(Len(Node(id).children) - 1) :
                          /\ pairedAt(id, i)
                          /\ orderedChildren(id)[i].characters = output.value[k].label
        /\ \A id \in 1..Len(input.nodes) :
              \A i \in 1..(Len(Node(id).children) - 1) :
                  /\ (pairedAt(id, i)
                         /\ orderedChildren(id)[i].characters \in FieldLabelsFound)
                        => orderedChildren(id)[i + 1].characters \notin FieldLabelsFound
                  /\ (i = 1 /\ pairedAt(id, 1) /\ denied(orderedChildren(id)[1].characters))
                        => orderedChildren(id)[2].characters \notin FieldLabelsFound

\* A form 2 levels below the root with a denied pair and then a plain frame: the only
\* field is the one of the pair in the frame, 3 levels below the root
C26_Witness ==
    /\ output.op = "extractSearchFieldsRecursive"
    /\ \E id \in 1..Len(input.nodes) :
          /\ Node(id).name = <<"f","o","r","m">> /\ levelOf(id) = 2
          /\ Len(Node(id).children) = 3
          /\ denied(orderedChildren(id)[1].characters)
          /\ pairedAt(id, 1) /\ pairedAt(id, 2)
          /\ orderedChildren(id)[3].name = <<"b","o","x">>
          /\ ~isInputComponent(orderedChildren(id)[3])
    /\ FieldLabelsFound = {<<"I", "3">>}

-----------------------------------------------------------------------------
(* Calls of determineFieldType *)

FieldLabels == {<<>>, <<"D","a","t","e">>, <<"S","e","l","e","c","t"," ","D","a","t","e">>, <<"u72b6","u6001">>, <<"N","a","m","e">>, <<"d","a","t","e">>, <<"T","y","p","e">>}
FieldNodeNames == {<<"s","e","l","e","c","t","-","d","a","t","e">>, <<"d","a","t","e">>, <<"i","n","p","u","t">>, <<"D","r","o","p","d","o","w","n">>, <<"b","o","x">>,
                   <<"t","i","m","e"," ","p","i","c","k","e","r">>}
FieldNodeTypes == {"FRAME", "INSTANCE", "RECTANGLE", "TEXT"}

InitFieldType ==
    /\ input \in [node : [name : FieldNodeNames, type : FieldNodeTypes], label : FieldLabels]
    /\ output = NoResult

CallDetermineFieldType ==
    /\ output = NoResult
    /\ output' = [op |-> "determineFieldType",
                  value |-> determineFieldType(input.node, input.label)]
    /\ UNCHANGED input

SpecFieldType == InitFieldType /\ [][CallDetermineFieldType]_vars

\* The label holds one of the words as written; the name holds one of them in any case
LabelHas(words) == \E i \in 1..Len(words) : includes(input.label, words[i])
NameHas(words) ==
    \E i \in 1..Len(words) : includes(toLowerCase(input.node.name), toLowerCase(words[i]))

\* C27: a label with a date word gives 'date', else a label with a select word gives
\* 'select', whatever the node; without a label hint the node name decides (select,
\* then date, then input) and every other case gives 'input'; the type is never
\* 'unknown'.
C27_LabelHintsFirst ==
    output.op = "determineFieldType" =>
        /\ output.value # "unknown"
        /\ output.value =
              IF LabelHas(<<<<"u65e5","u671f">>, <<"u65f6","u95f4">>, <<"D","a","t","e">>, <<"T","i","m","e">>, <<"u5e74","u4efd">>, <<"u6708","u4efd">>>>)
              THEN "date"
              ELSE IF LabelHas(<<<<"u4e0b","u62c9">>, <<"u9009","u62e9">>, <<"S","e","l","e","c","t">>, <<"C","h","o","o","s","e">>, <<"u7c7b","u578b">>,
                                 <<"u72b6","u6001">>>>)
              THEN "select"
              ELSE IF NameHas(SelectKeywords) THEN "select"
              ELSE IF NameHas(DateKeywords) THEN "date"
              ELSE "input"

\* A label with a date word beside a node with a select name gave 'date'
C27_Witness ==
    /\ output.op = "determineFieldType"
    /\ input.label = <<"D","a","t","e">>
    /\ input.node.name = <<"D","r","o","p","d","o","w","n">>
    /\ output.value = "date"

-----------------------------------------------------------------------------
(* The label of a button *)

MaxLabelTexts == 2
MaxLabelOverrides == 2
LabelTexts ==
    {<<<<"S","e","a","r","c","h">>, <<"l","a","b","e","l">>>>, <<<<"E","x","p","o","r","t">>, <<"l","a","b","e","l">>>>, <<<<"A","d","d">>, <<"l","a","b","e","l">>>>,
     <<<<"t","e","x","t">>, <<"l","a","b","e","l">>>>, <<<<"L","a","b","e","l">>, <<"l","a","b","e","l">>>>, <<<<"X">>, <<"l","a","b","e","l">>>>,
     <<<<"uD83D", "uDD0D">>, <<"l","a","b","e","l">>>>, <<<<"S","a","v","e">>, <<"i","c","o","n","-","t","e","x","t">>>>}
LabelOverrides == {<<"P","l","a","c","e","h","o","l","d","e","r">>, <<"O","K">>, <<"u6587","u5b57">>, <<"X">>}
LabelNodeTypes == {"FRAME", "INSTANCE"}

\* A node 'btn' of the type around the texts, with the overrides if it is an instance
labelTree(type, texts, overrides) ==
    numbered([frame(<<"b","t","n">>, 0, 0, 80, 30,
                    [i \in 1..Len(texts) |->
                        textNode(texts[i][2], texts[i][1], 14, (i - 1) * 40, 5, 30, 20)])
                 EXCEPT !.node.type = type,
                        !.node.overrides =
                            [k \in 1..Len(overrides) |->
                                [id |-> <<"1", ":", ItemDigits[k]>>, value |-> overrides[k]]]],
             1, 0)

LabelTrees ==
    {labelTree("FRAME", texts, <<>>) :
        texts \in UNION {[1..n -> LabelTexts] : n \in 0..MaxLabelTexts}}
    \cup {labelTree("INSTANCE", texts, overrides) :
            texts \in UNION {[1..n -> LabelTexts] : n \in 0..MaxLabelTexts},
            overrides \in UNION {[1..n -> LabelOverrides] : n \in 0..MaxLabelOverrides}}

InitLabel ==
    /\ input \in [nodes : LabelTrees, root : {1}, context : {"search", "toolbar"}]
    /\ output = NoResult

CallExtractButton ==
    /\ output = NoResult
    /\ output' = [op |-> "extractButton",
                  value |-> extractButton(Node(input.root), input.context)]
    /\ UNCHANGED input

SpecLabel == InitLabel /\ [][CallExtractButton]_vars

\* The candidate texts of the call: the texts under the node, then those of the
\* properties and of the overrides of an instance
labelCandidates ==
    collectTextRecursive(Node(input.root), 0, input.context)
        \o (IF Node(input.root).type = "INSTANCE"
            THEN propertyTexts(Node(input.root)) \o overrideTexts(Node(input.root))
            ELSE <<>>)

placeholderLike(text) ==
    toLowerCase(text) \in {<<"u6587","u5b57">>, <<"t","e","x","t">>, <<"l","a","b","e","l">>, <<"p","l","a","c","e","h","o","l","d","e","r">>}

survives(candidate) ==
    /\ ~placeholderLike(candidate.text)
    /\ Len(candidate.text) > 1
    /\ ~isEmoji(candidate.text)
    /\ ~includes(toLowerCase(candidate.nodeName), <<"i","c","o","n">>)
    /\ ~includes(candidate.nodeName, <<"u56fe","u6807">>)

Surviving == {k \in 1..Len(labelCandidates) : survives(labelCandidates[k])}

\* The first of the longest surviving candidates
FirstLongest ==
    CHOOSE k \in Surviving :
        \A j \in Surviving :
            \/ Len(labelCandidates[j].text) < Len(labelCandidates[k].text)
            \/ Len(labelCandidates[j].text) = Len(labelCandidates[k].text) /\ k <= j

\* C28: with a surviving candidate the label is the first of the longest of them;
\* with none, a button in search context has the trimmed value of an override that is
\* not placeholder-like; a placeholder-like label is returned in toolbar context only,
\* and only when no candidate survives.
C28_LongestSurvivingCandidate ==
    output.op = "extractButton" =>
        /\ Surviving # {} =>
              /\ output.value # Undefined
              /\ output.value.label = labelCandidates[FirstLongest].text
        /\ (Surviving = {} /\ output.value # Undefined /\ input.context = "search") =>
              /\ ~placeholderLike(output.value.label)
              /\ \E k \in 1..Len(Node(input.root).overrides) :
                    trim(Node(input.root).overrides[k].value) = output.value.label
        /\ (output.value # Undefined /\ placeholderLike(output.value.label)) =>
              /\ input.context = "toolbar"
              /\ Surviving = {}

\* Two surviving texts of one length, and the label is the first
C28_Witness ==
    /\ output.op = "extractButton"
    /\ Cardinality(Surviving) = 2
    /\ Len(labelCandidates[1].text) = Len(labelCandidates[2].text)
    /\ labelCandidates[1].text # labelCandidates[2].text
    /\ output.value # Undefined
    /\ output.value.label = labelCandidates[1].text

-----------------------------------------------------------------------------
(* Column components with the same title *)

MaxComponents == 3
ComponentsWidth == 1000
ComponentWidths == {100, 900}
ComponentTitles == {<<"N","a","m","e">>, <<"A","g","e">>}
ComponentNames == {<<"c","o","l">>, <<"a","c","t","i","o","n","s">>}

\* A 'columns' container around the components, each a frame around its title
componentsTree(components) ==
    numbered(frame(<<"c","o","l","u","m","n","s">>, 0, 0, ComponentsWidth, 40,
                   [i \in 1..Len(components) |->
                       frame(components[i].name, (i - 1) * 100, 0, components[i].width, 40,
                             <<textNode(<<"t","i","t","l","e">>, components[i].title, 14, (i - 1) * 100, 10,
                                        60, 20)>>)]),
             1, 0)

ComponentsTrees ==
    {componentsTree(components) :
        components \in UNION {[1..n -> [name : ComponentNames, width : ComponentWidths,
                                        title : ComponentTitles]] : n \in 0..MaxComponents}}

InitComponents ==
    /\ input \in [nodes : ComponentsTrees, root : {1}]
    /\ output = NoResult

SpecComponents == InitComponents /\ [][CallExtractTableColumnsRecursive]_vars

\* C29: a component of the 'columns' container with a title, at most 80% as wide as
\* the container and no action column, is left out only if a column of its title is
\* in the result.
C29_DroppedOnlyForEmittedTitle ==
    (output.op = "extractTableColumnsRecursive" /\ ~output.threw) =>
        \A k \in 1..Len(Node(input.root).children) :
            LET colNode == Node(Node(input.root).children[k])
                title == findTitleText(colNode, 0)
            IN  (/\ title.score > 0
                 /\ 10 * colNode.width <= 8 * Node(input.root).width
                 /\ ~isExplicitActionColumn(colNode)
                 /\ ~isExplicitActionColumnName(title.text))
                    => \E c \in 1..Len(output.value) : output.value[c].title = title.text

\* The node the DataGrid search finds has a title-like name and a sibling is taken as
\* the grid in its place
SiblingRescued ==
    With(findComponentByRole(Node(input.root), "DataGrid"), LAMBDA tableAreaNode :
        tableAreaNode # Undefined /\ actualTableNodeOf(tableAreaNode) # tableAreaNode)

\* The actionColumn that the operation search gives on the node the columns are read
\* from
ActionColumnOfActualTable ==
    With(operationStage(actualTableNodeOf(findComponentByRole(Node(input.root), "DataGrid"))),
         LAMBDA actionButtons :
             IF actionButtons # Undefined
             THEN [column |-> ActionColumn, buttons |-> actionButtons.value]
             ELSE Undefined)

\* C30: when a sibling is taken as the grid, the operation buttons of the model are
\* those found under that sibling, the node the plain columns are read from.
C30_OperationsFromTheSelectedGrid ==
    (Returned /\ SiblingRescued) =>
        output.value.body.table.actionColumn = ActionColumnOfActualTable
=============================================================================
